---- MODULE Spec2Model ----
(***************************************************************************)
(* teeproxy: a reverse HTTP proxy that duplicates every inbound request,   *)
(* sends the original to the production backend (A) and relays its         *)
(* response, and sends one clone to each alternative backend (B) whose     *)
(* response is logged and dropped.                                         *)
(*                                                                         *)
(* The model follows the current revision of the program, the second       *)
(* `package main` of src/teeproxy.go (lines 248-576).                      *)
(*                                                                         *)
(* Strings that the program inspects character by character (addresses,    *)
(* header values, methods, URLs) are sequences of one-character strings.   *)
(* Go objects that are reached through a pointer or a map reference        *)
(* (url.URL, http.Header, the io.Reader behind Body) live in a heap and    *)
(* are named by their index, so that two requests holding the same         *)
(* reference see each other's writes, as in the program.                   *)
(***************************************************************************)
EXTENDS Integers, Sequences, FiniteSets, TLC

VARIABLES
    cfg,     \* the console flags and the handler value (set once by main)
    mem,     \* mem[r]: the heap of inbound request r (requests, URLs, headers, bodies)
    pc,      \* pc[r]: where ServeHTTP of request r stands
    loc,     \* loc[r]: the locals of ServeHTTP of request r
    w,       \* w[r]: the http.ResponseWriter of request r, as the client sees it
    lane,    \* lane[r][i]: the goroutine handleAlternativeRequest of clone i
    wire,    \* wire[r]: what the backends do and what they received
    log,     \* log[r][l]: the lines lane l of request r gave to the log package
    proc,    \* "running", or "crashed" once a panic was recovered by nobody
    pre,     \* the heap before the last operation (history variable)
    op       \* the last operation (history variable)

vars == <<cfg, mem, pc, loc, w, lane, wire, log, proc, pre, op>>

----------------------------------------------------------------------------
(* Bounds of the model *)

\* Number of inbound requests the model holds.
NumRequests == 2
\* Largest number of -b flags (alternative backends).
MaxAlternatives == 2
\* Largest number of values one header key starts with.
MaxValues == 2
\* Largest number of bytes of an inbound body.
MaxBody == 2
\* The random draw is one of 0/DrawSteps .. (DrawSteps-1)/DrawSteps.
DrawSteps == 4
\* Largest number of operations applied in the specifications of single functions.
MaxOps == 3
\* Length of the random source's vector (rngLen of math/rand, 607 there).
RngLen == 3

Reqs == 1 .. NumRequests

----------------------------------------------------------------------------
(* Strings *)

EmptyStr == << >>

\* strings.LastIndex(s, c) for a one-character c: the 1-based position of the
\* last c in s, 0 when s holds none (Go: the 0-based index, -1 when none).
LastIndex(s, c) ==
    IF \E i \in 1 .. Len(s) : s[i] = c
    THEN CHOOSE i \in 1 .. Len(s) : s[i] = c /\ \A j \in (i + 1) .. Len(s) : s[j] # c
    ELSE 0

\* strings.HasPrefix
HasPrefix(s, p) == Len(s) >= Len(p) /\ SubSeq(s, 1, Len(p)) = p

\* strings.TrimPrefix
TrimPrefix(s, p) == IF HasPrefix(s, p) THEN SubSeq(s, Len(p) + 1, Len(s)) ELSE s

\* strings.Contains
Contains(s, p) == \E i \in 0 .. (Len(s) - Len(p)) : SubSeq(s, i + 1, i + Len(p)) = p

\* Position of the first occurrence of p in s at or after position from, 0 when none.
IndexFrom(s, p, from) ==
    LET hits == {i \in from .. (Len(s) - Len(p) + 1) : SubSeq(s, i, i + Len(p) - 1) = p}
    IN  IF hits = {} THEN 0 ELSE CHOOSE i \in hits : \A j \in hits : i <= j

CommaSpace == <<",", " ">>
ForEquals == <<"f", "o", "r", "=">>

----------------------------------------------------------------------------
(* http.Header: a map from a key to the list of its values *)

XFF_HEADER == "X-Forwarded-For"
FORWARDED_HEADER == "Forwarded"

\* Header.Get: the first value of the key, "" when the key has none.
HeaderGet(h, k) == IF k \in DOMAIN h /\ Len(h[k]) > 0 THEN h[k][1] ELSE EmptyStr

\* Header.Set: the key's list becomes the single value v.
HeaderSet(h, k, v) == [x \in (DOMAIN h) \cup {k} |-> IF x = k THEN <<v>> ELSE h[x]]

\* Header.Add: v joins the end of the key's list.
HeaderAdd(h, k, v) ==
    [x \in (DOMAIN h) \cup {k} |->
        IF x = k THEN (IF k \in DOMAIN h THEN Append(h[k], v) ELSE <<v>>) ELSE h[x]]

\* Header.Del
HeaderDel(h, k) == [x \in (DOMAIN h) \ {k} |-> h[x]]

----------------------------------------------------------------------------
(***************************************************************************)
(* The heap of one inbound request.                                        *)
(*   req[s]  : an http.Request struct; s = 1 is the request the server     *)
(*             handed to ServeHTTP, s > 1 are the clones                   *)
(*   url[u]  : a url.URL object (Request.URL is a pointer)                 *)
(*   hdr[m]  : an http.Header map (Request.Header is a map reference)      *)
(*   body[b] : a reader (Request.Body is an interface holding a pointer):  *)
(*             data are the bytes it yields, off how many were read, err   *)
(*             whether it ends in a read error instead of EOF              *)
(***************************************************************************)

NoHeap == [req |-> << >>, url |-> << >>, hdr |-> << >>, body |-> << >>]

\* Body == nil
NilBody == 0

Original == 1

\* URL == nil
NilURL == 0

Reader(data, err) == [data |-> data, off |-> 0, err |-> err]

\* What is left to read of reader b.
Remaining(h, b) == IF b = NilBody THEN << >> ELSE SubSeq(h.body[b].data, h.body[b].off + 1, Len(h.body[b].data))

\* ioutil.ReadAll(body): the bytes read (the error is dropped by the caller)
\* and the heap with the reader at its end.
ReadAllBytes(h, b) == Remaining(h, b)

ReadAllHeap(h, b) == [h EXCEPT !.body[b].off = Len(h.body[b].data)]

\* Read of at most n bytes.
ReadSome(h, b, n) ==
    LET k == IF Len(Remaining(h, b)) < n THEN Len(Remaining(h, b)) ELSE n
    IN  [h EXCEPT !.body[b].off = @ + k]

\* The request struct s of heap h with its references followed: what a reader of
\* the request sees.
View(h, s) ==
    [Method |-> h.req[s].Method,
     URL    |-> IF h.req[s].URL = NilURL THEN [nil |-> TRUE] ELSE h.url[h.req[s].URL],
     Header |-> h.hdr[h.req[s].Header],
     Host   |-> h.req[s].Host,
     Body   |-> Remaining(h, h.req[s].Body)]

----------------------------------------------------------------------------
(* net/url *)

Digits == {"0", "1", "2", "3", "4", "5", "6", "7", "8", "9"}

SchemeSep == <<":", "/", "/">>

\* URL.String() of a URL object.
URLString(u) ==
    (IF u.Scheme # EmptyStr THEN u.Scheme \o <<":">> ELSE EmptyStr)
    \o (IF u.Scheme # EmptyStr \/ u.Host # EmptyStr THEN <<"/", "/">> \o u.Host ELSE EmptyStr)
    \o u.Path

\* A host with a port that is not a number is refused by url.Parse.
ValidHost(host) ==
    LET c == LastIndex(host, ":")
    IN  c = 0 \/ host[Len(host)] = "]"
        \/ \A i \in (c + 1) .. Len(host) : host[i] \in Digits

\* url.Parse(s) for "scheme://host/path": the URL object (err: the parse failed
\* and the URL returned is nil).
URLParse(s) ==
    LET i == IndexFrom(s, SchemeSep, 1)
    IN  IF i = 0
        THEN [err |-> FALSE, Scheme |-> EmptyStr, Host |-> EmptyStr, Path |-> s]
        ELSE LET rest == SubSeq(s, i + 3, Len(s))
                 j    == IndexFrom(rest, <<"/">>, 1)
                 host == IF j = 0 THEN rest ELSE SubSeq(rest, 1, j - 1)
                 path == IF j = 0 THEN EmptyStr ELSE SubSeq(rest, j, Len(rest))
             IN  [err |-> ~ValidHost(host), Scheme |-> SubSeq(s, 1, i - 1),
                  Host |-> host, Path |-> path]

\* setRequestTarget: request.URL becomes a new URL object parsed from
\* scheme + "://" + target + request.URL.String(), nil when the parse fails.
setRequestTarget(h, s, target, scheme) ==
    LET parsed == URLParse(scheme \o SchemeSep \o target \o URLString(h.url[h.req[s].URL]))
    IN  IF parsed.err
        THEN [h EXCEPT !.req[s].URL = NilURL]
        ELSE [h EXCEPT !.url = Append(@, [Scheme |-> parsed.Scheme, Host |-> parsed.Host,
                                          Path |-> parsed.Path]),
                       !.req[s].URL = Len(h.url) + 1]

\* The line setRequestTarget logs: the parse error, if any.
setRequestTargetLog(h, s, target, scheme) ==
    IF URLParse(scheme \o SchemeSep \o target \o URLString(h.url[h.req[s].URL])).err
    THEN <<[line |-> "url.Parse error"]>>
    ELSE << >>

\* SchemeAndHost: the scheme and the rest of a -a / -b flag value.
SchemeAndHost(url) ==
    IF HasPrefix(url, <<"h", "t", "t", "p", "s">>)
    THEN [scheme |-> <<"h", "t", "t", "p", "s">>,
          hostname |-> TrimPrefix(url, <<"h", "t", "t", "p", "s", ":", "/", "/">>)]
    ELSE [scheme |-> <<"h", "t", "t", "p">>,
          hostname |-> TrimPrefix(url, <<"h", "t", "t", "p", ":", "/", "/">>)]

----------------------------------------------------------------------------
(* DuplicateRequest *)

\* The struct DuplicateRequest returns is the next one of the heap.
DupOf(h) == Len(h.req) + 1

\* (mutant) Body: request.Body, the duplicate holds the request's own reader
DuplicateRequest_SharedBody(h, s) ==
    LET request   == h.req[s]
        bodyBytes == IF request.Body # NilBody THEN ReadAllBytes(h, request.Body) ELSE << >>
        h1        == IF request.Body # NilBody THEN ReadAllHeap(h, request.Body) ELSE h
        b1        == Len(h1.body) + 1
        dup       == [request EXCEPT !.Body = b1, !.Close = TRUE, !.RemoteAddr = EmptyStr]
    IN  [h1 EXCEPT !.body = Append(@, Reader(bodyBytes, FALSE)),
                   !.req  = Append([@ EXCEPT ![s].Body = b1], dup)]

\* (mutant) a read that ends in an error leaves both buffers empty
DuplicateRequest_FailedReadGivesNoBody(h, s) ==
    LET request   == h.req[s]
        failed    == request.Body # NilBody /\ h.body[request.Body].err
        bodyBytes == IF request.Body # NilBody /\ ~failed THEN ReadAllBytes(h, request.Body) ELSE << >>
        h1        == IF request.Body # NilBody THEN ReadAllHeap(h, request.Body) ELSE h
        b1        == Len(h1.body) + 1
        b2        == Len(h1.body) + 2
        dup       == [request EXCEPT !.Body = b2, !.Close = TRUE, !.RemoteAddr = EmptyStr]
    IN  [h1 EXCEPT !.body = @ \o <<Reader(bodyBytes, FALSE), Reader(bodyBytes, FALSE)>>,
                   !.req  = Append([@ EXCEPT ![s].Body = b1], dup)]

\* DuplicateRequest(request): the body is read to its end, request.Body becomes a
\* new buffer over the bytes read and the duplicate gets a second buffer over
\* them; URL and Header of the duplicate are the request's own pointer and map.
\* (Both buffers wrap one byte slice; a bytes.Buffer that is only read never
\* writes to it, so each buffer is modelled with its own copy of the bytes.)
DuplicateRequest(h, s) ==
    LET request   == h.req[s]
        bodyBytes == IF request.Body # NilBody THEN ReadAllBytes(h, request.Body) ELSE << >>
        h1        == IF request.Body # NilBody THEN ReadAllHeap(h, request.Body) ELSE h
        b1        == Len(h1.body) + 1
        b2        == Len(h1.body) + 2
        dup       == [Method        |-> request.Method,
                      URL           |-> request.URL,
                      Header        |-> request.Header,
                      Body          |-> b2,
                      Host          |-> request.Host,
                      ContentLength |-> request.ContentLength,
                      Close         |-> TRUE,
                      RemoteAddr    |-> EmptyStr]
    IN  [h1 EXCEPT !.body = @ \o <<Reader(bodyBytes, FALSE), Reader(bodyBytes, FALSE)>>,
                   !.req  = Append([@ EXCEPT ![s].Body = b1], dup)]

----------------------------------------------------------------------------
(* Forwarded headers *)

\* insertOrExtendXFFHeader
insertOrExtendXFFHeader(hd, remoteIP) ==
    LET header == HeaderGet(hd, XFF_HEADER)
    IN  IF header # EmptyStr
        THEN HeaderSet(hd, XFF_HEADER, header \o CommaSpace \o remoteIP)
        ELSE HeaderSet(hd, XFF_HEADER, remoteIP)

\* insertOrExtendForwardedHeader
insertOrExtendForwardedHeader(hd, remoteIP) ==
    LET extension == ForEquals \o remoteIP
        header    == HeaderGet(hd, FORWARDED_HEADER)
    IN  IF header # EmptyStr
        THEN HeaderSet(hd, FORWARDED_HEADER, header \o CommaSpace \o extension)
        ELSE HeaderSet(hd, FORWARDED_HEADER, extension)

\* (mutant) the address is cut at its first colon
RemoteIP_FirstColon(addr) ==
    LET colons == {i \in 1 .. Len(addr) : addr[i] = ":"}
    IN  IF colons # {} THEN SubSeq(addr, 1, (CHOOSE i \in colons : \A k \in colons : i <= k) - 1)
        ELSE addr

\* The remoteIP updateForwardedHeaders computes from request.RemoteAddr.
RemoteIP(addr) ==
    LET positionOfColon == LastIndex(addr, ":")
    IN  IF positionOfColon # 0 THEN SubSeq(addr, 1, positionOfColon - 1) ELSE addr

\* updateForwardedHeaders: both headers of the request's header map are
\* inserted or extended, Forwarded first.
updateForwardedHeaders(h, s) ==
    LET remoteIP == RemoteIP(h.req[s].RemoteAddr)
        m        == h.req[s].Header
    IN  [h EXCEPT !.hdr[m] =
            insertOrExtendXFFHeader(insertOrExtendForwardedHeader(@, remoteIP), remoteIP)]

\* The line updateForwardedHeaders logs: a warning when RemoteAddr holds no
\* colon. The line is formatted with remoteIP, which is still "" at that point.
updateForwardedHeadersLog(h, s) ==
    IF LastIndex(h.req[s].RemoteAddr, ":") = 0
    THEN <<[line |-> "RemoteAddr should be IP:Port", arg |-> EmptyStr]>>
    ELSE << >>

----------------------------------------------------------------------------
(* The method filter and the sampler *)

\* regexp.MatchString for a pattern that is an alternation of literals
\* (GET|POST): the pattern is not anchored, so it matches when one of the
\* literals occurs anywhere in the string.
MatchString(alts, str) == \E a \in alts : Contains(str, a)

\* (mutant) without a pattern nothing matches
matchedByHttpMethod_NilRefuses(c, requestMethod) ==
    ~c.alternateMethodsRegex.nil /\ MatchString(c.alternateMethodsRegex.alts, requestMethod)

\* matchedByHttpMethod: alternateMethodsRegex is nil unless -b.methods is given.
matchedByHttpMethod(c, requestMethod) ==
    IF c.alternateMethodsRegex.nil
    THEN TRUE
    ELSE MatchString(c.alternateMethodsRegex.alts, requestMethod)

\* (mutant) <= in the place of <
DrawBelowPercent_OrEqual(d, percent) == d * 100 <= percent * DrawSteps

\* h.Randomizer.Float64()*100 < *percent, for the draw d / DrawSteps.
DrawBelowPercent(d, percent) == d * 100 < percent * DrawSteps

----------------------------------------------------------------------------
(* handleRequest                                                           *)

\* What transport.RoundTrip ends with: a response, an error (log.Println gets
\* it and the response is nil), or a panic.
\*   "invalid" : the transport refuses the request before it dials (no URL)
\*   "dial"    : no connection (refused, or the dial timeout ran out)
\*   "write"   : writing the request failed
\*   "read"    : reading the response head failed
\*   "timeout" : no response head within ResponseHeaderTimeout
ErrorKinds == {"invalid", "dial", "write", "read", "timeout"}

Failure(kind) == [kind |-> kind]

NilResponse == [nil |-> TRUE]

\* The bytes of the request body that reached the backend when RoundTrip ended
\* in `out`: none before the connection stands, all of them once the request
\* was written.
BodySent(h, s, out) ==
    IF out.kind \in {"ok", "read", "timeout"} THEN Remaining(h, h.req[s].Body) ELSE << >>

\* net/http cleanHost: the Host line of an outgoing request is request.Host
\* up to its first "/" or " ".
cleanHost(in) ==
    LET cut == {i \in 1 .. Len(in) : in[i] \in {"/", " "}}
    IN  IF cut = {} THEN in ELSE SubSeq(in, 1, (CHOOSE i \in cut : \A j \in cut : i <= j) - 1)

\* The Host line the transport writes: request.Host, the host of the URL when
\* request.Host is empty.
HostLine(h, s) ==
    IF h.req[s].Host # EmptyStr THEN cleanHost(h.req[s].Host)
    ELSE cleanHost(h.url[h.req[s].URL].Host)

\* What the backend received of request s.
Received(h, s, out) ==
    IF out.kind \in {"invalid", "dial", "panic"}
    THEN << >>
    ELSE <<[Method   |-> h.req[s].Method,
            URL      |-> h.url[h.req[s].URL],
            Header   |-> h.hdr[h.req[s].Header],
            Host     |-> HostLine(h, s),
            Body     |-> BodySent(h, s, out),
            complete |-> out.kind # "write"]>>

\* transport.RoundTrip(request) against a backend that behaves as `b`: the
\* transport refuses a request without URL; when the backend can be reached the
\* request body is read to be written, and the write fails when that read fails
\* or when the body is shorter than a ContentLength > 0 announces.
RoundTrip(h, s, b) ==
    IF h.req[s].URL = NilURL THEN Failure("invalid")
    ELSE IF b.kind \in {"dial", "panic", "write"} THEN b
    ELSE IF h.req[s].Body # NilBody /\ h.body[h.req[s].Body].err THEN Failure("write")
    ELSE IF h.req[s].ContentLength > 0
            /\ Len(Remaining(h, h.req[s].Body)) < h.req[s].ContentLength THEN Failure("write")
    ELSE b

\* (mutant) the error is logged only with -debug
handleRequest_DebugOnly(h, s, out) ==
    [response |-> IF out.kind = "ok" THEN out.resp ELSE NilResponse,
     lines    |-> IF out.kind \in ErrorKinds /\ cfg.debug
                  THEN <<[line |-> "Request failed:", err |-> out.kind]>>
                  ELSE << >>,
     heap     |-> IF out.kind \in {"ok", "read", "timeout"} /\ h.req[s].Body # NilBody
                  THEN ReadAllHeap(h, h.req[s].Body)
                  ELSE h]

\* handleRequest(request, timeout, scheme) when RoundTrip ends in `out`:
\* the response returned (nil after an error), the lines logged, the heap
\* after the transport read the body.
handleRequest(h, s, out) ==
    [response |-> IF out.kind = "ok" THEN out.resp ELSE NilResponse,
     lines    |-> IF out.kind \in ErrorKinds
                  THEN <<[line |-> "Request failed:", err |-> out.kind]>>
                  ELSE << >>,
     heap     |-> IF out.kind \in {"ok", "read", "timeout"} /\ h.req[s].Body # NilBody
                  THEN ReadAllHeap(h, h.req[s].Body)
                  ELSE h]

----------------------------------------------------------------------------
(* The values the model draws its inputs from *)

GET == <<"G", "E", "T">>
POST == <<"P", "O", "S", "T">>
DELETE == <<"D", "E", "L", "E", "T", "E">>
Methods == {GET, POST, DELETE}

HTTP == <<"h", "t", "t", "p">>
HTTPS == <<"h", "t", "t", "p", "s">>

\* The n bytes a, b, a, ...
Bytes(n) == [i \in 1 .. n |-> IF i % 2 = 1 THEN "a" ELSE "b"]

\* -b.methods: not given, or GET|POST
NoRegex == [nil |-> TRUE, alts |-> {}]
GetOrPost == [nil |-> FALSE, alts |-> {GET, POST}]

\* -a: a bare host:port, or one with a scheme
TargetFlags == {<<"a", ":", "1">>}

\* the i-th -b flag
Digit(i) == <<"0", "1", "2", "3", "4", "5", "6", "7", "8", "9">>[(i % 10) + 1]

AlternativeFlag(i) ==
    IF i % 2 = 1 THEN <<"b", ":", Digit(i)>>
    ELSE HTTPS \o SchemeSep \o <<"b", ":", Digit(i)>>

\* arrayAlternatives.Set, called by flag.Parse for every -b flag
AlternativesSet(list, value) ==
    Append(list, [AlternativeScheme |-> SchemeAndHost(value).scheme,
                  Alternative       |-> SchemeAndHost(value).hostname])

RECURSIVE ParseAlternatives(_)
ParseAlternatives(k) ==
    IF k = 0 THEN << >> ELSE AlternativesSet(ParseAlternatives(k - 1), AlternativeFlag(k))

\* main: the flags are parsed, the regular expression is compiled, the handler
\* is built and SetSchemes splits -a into scheme and host.
Config(a, k, percent, regex, fwd, dbg, rwA, rwB) ==
    [Target                |-> SchemeAndHost(a).hostname,
     TargetScheme          |-> SchemeAndHost(a).scheme,
     Alternatives          |-> ParseAlternatives(k),
     percent               |-> percent,
     alternateMethodsRegex |-> regex,
     forwardClientIP       |-> fwd,
     debug                 |-> dbg,
     productionHostRewrite |-> rwA,
     alternateHostRewrite  |-> rwB]

\* The responses of a backend: one with a key of two values and a body, one
\* with neither, one whose body breaks off after its first byte.
Responses ==
    {[StatusCode |-> 200,
      Header     |-> [k \in {"Content-Type", "Set-Cookie"} |->
                        IF k = "Set-Cookie" THEN << <<"x">>, <<"y">> >> ELSE << <<"t">> >>],
      Body       |-> Reader(<<"o", "k">>, FALSE)],
     [StatusCode |-> 404, Header |-> << >>, Body |-> Reader(<< >>, FALSE)],
     [StatusCode |-> 500, Header |-> [k \in {"Content-Type"} |-> << <<"t">> >>],
      Body       |-> Reader(<<"o">>, TRUE)]}

OK(resp) == [kind |-> "ok", resp |-> resp]

\* How the production backend may behave towards one request.
PrimaryBehaviours ==
    {OK(resp) : resp \in Responses}
    \cup {Failure(k) : k \in {"dial", "write", "read", "timeout"}}
    \cup {[kind |-> "panic"]}

\* How an alternative backend may behave towards one clone. (A backend that
\* hangs is one whose goroutine takes no step.)
AlternativeBehaviours ==
    {OK(CHOOSE resp \in Responses : resp.StatusCode = 200),
     Failure("dial"), Failure("read"), [kind |-> "panic"]}

\* The Host the client sent.
ClientHost == <<"c">>

\* An inbound request as net/http hands it to ServeHTTP.
\*   cl = -1: the length of the body is not known (chunked)
InboundHeap(method, header, remoteAddr, body, cl) ==
    [req  |-> <<[Method        |-> method,
                 URL           |-> 1,
                 Header        |-> 1,
                 Body          |-> IF body.nil THEN NilBody ELSE 1,
                 Host          |-> ClientHost,
                 ContentLength |-> cl,
                 Close         |-> FALSE,
                 RemoteAddr    |-> remoteAddr]>>,
     url  |-> <<[Scheme |-> EmptyStr, Host |-> EmptyStr, Path |-> <<"/", "p">>]>>,
     hdr  |-> <<header>>,
     body |-> IF body.nil THEN << >> ELSE <<Reader(body.data, body.err)>>]

NoBodyAtAll == [nil |-> TRUE, data |-> << >>, err |-> FALSE]
BodyOf(data, err) == [nil |-> FALSE, data |-> data, err |-> err]

\* A request in no state: the server has not handed it to the handler.
Lanes == 0 .. MaxAlternatives

IdleLoc == [draw |-> << >>, i |-> 1, resp |-> NilResponse, panicked |-> FALSE]
IdleWriter == [header |-> << >>, sent |-> << >>, status |-> 0, body |-> << >>, trace |-> << >>]
IdleLane == [i \in 1 .. MaxAlternatives |-> [pc |-> "none", request |-> 0]]
IdleWire(b) == [primary  |-> b,
                attempts |-> [l \in Lanes |-> 0],
                got      |-> [l \in Lanes |-> << >>],
                result   |-> [l \in Lanes |-> << >>]]
IdleLog == [l \in Lanes |-> << >>]

----------------------------------------------------------------------------
(* handler.ServeHTTP, one action per step                                  *)

\* The log lines of lane l of request r grow by `lines` (l = 0: the request's
\* own goroutine).
Logged(r, l, lines) == [log EXCEPT ![r][l] = @ \o lines]

\* (mutant) after the loop ServeHTTP waits until every goroutine it started
\* has returned (a sync.WaitGroup)
HandlerRunnable_WaitsForAlternatives(r) ==
    /\ proc = "running"
    /\ pc[r] \notin {"idle", "done"}
    /\ pc[r] \in {"target", "dispatch", "relay", "status", "body"} =>
            \A i \in 1 .. MaxAlternatives : lane[r][i].pc # "spawned"

\* The goroutine of ServeHTTP(r) can run: the process is alive and the
\* function has not returned. No statement of ServeHTTP blocks on a goroutine
\* it started (no channel, no WaitGroup), so nothing else is asked for; every
\* step below has this guard and its own position, and there is a step for
\* every position.
HandlerRunnable(r) == proc = "running" /\ pc[r] \notin {"idle", "done"}

\* lines 395-397: if *forwardClientIP { updateForwardedHeaders(req) }
ServeEnrich(r) ==
    /\ HandlerRunnable(r)
    /\ pc[r] = "start"
    /\ mem' = [mem EXCEPT ![r] = IF cfg.forwardClientIP
                                 THEN updateForwardedHeaders(@, Original) ELSE @]
    /\ log' = IF cfg.forwardClientIP
              THEN Logged(r, 0, updateForwardedHeadersLog(mem[r], Original)) ELSE log
    /\ pc' = [pc EXCEPT ![r] = "sample"]
    /\ UNCHANGED <<cfg, loc, w, lane, wire, proc, pre, op>>

\* (mutant) a request that is not sampled returns at once
ServeSample_GatesPrimary(r) ==
    /\ HandlerRunnable(r)
    /\ pc[r] = "sample"
    /\ \/ /\ cfg.percent = 100
          /\ pc' = [pc EXCEPT ![r] = "filter"]
          /\ loc' = loc
       \/ /\ cfg.percent # 100
          /\ \E d \in 0 .. (DrawSteps - 1) :
                /\ loc' = [loc EXCEPT ![r].draw = <<d>>]
                /\ pc' = [pc EXCEPT ![r] = IF DrawBelowPercent(d, cfg.percent)
                                           THEN "filter" ELSE "done"]
    /\ UNCHANGED <<cfg, mem, w, lane, wire, log, proc, pre, op>>

\* line 398: *percent == 100.0 || h.Randomizer.Float64()*100 < *percent
\* (no number is drawn at 100)
ServeSample(r) ==
    /\ HandlerRunnable(r)
    /\ pc[r] = "sample"
    /\ \/ /\ cfg.percent = 100
          /\ pc' = [pc EXCEPT ![r] = "filter"]
          /\ loc' = loc
       \/ /\ cfg.percent # 100
          /\ \E d \in 0 .. (DrawSteps - 1) :
                /\ loc' = [loc EXCEPT ![r].draw = <<d>>]
                /\ pc' = [pc EXCEPT ![r] = IF DrawBelowPercent(d, cfg.percent)
                                           THEN "filter" ELSE "target"]
    /\ UNCHANGED <<cfg, mem, w, lane, wire, log, proc, pre, op>>

\* line 399: if matchedByHttpMethod(req.Method)
ServeFilter(r) ==
    /\ HandlerRunnable(r)
    /\ pc[r] = "filter"
    /\ pc' = [pc EXCEPT ![r] = IF matchedByHttpMethod(cfg, mem[r].req[Original].Method)
                               THEN "loop" ELSE "target"]
    /\ UNCHANGED <<cfg, mem, loc, w, lane, wire, log, proc, pre, op>>

\* (mutant) the duplicate's Host is rewritten when -a.rewrite is set
CloneFor_ProductionFlag(h, alt, c) ==
    LET h1 == DuplicateRequest(h, Original)
        d  == DupOf(h)
        h2 == setRequestTarget(h1, d, alt.Alternative, alt.AlternativeScheme)
    IN  IF c.productionHostRewrite THEN [h2 EXCEPT !.req[d].Host = alt.Alternative] ELSE h2

\* (mutant) the forwarded headers are updated in every turn of the loop
CloneFor_EnrichesEachClone(h, alt, c) ==
    LET h0 == IF c.forwardClientIP THEN updateForwardedHeaders(h, Original) ELSE h
        h1 == DuplicateRequest(h0, Original)
        d  == DupOf(h0)
        h2 == setRequestTarget(h1, d, alt.Alternative, alt.AlternativeScheme)
    IN  IF c.alternateHostRewrite THEN [h2 EXCEPT !.req[d].Host = alt.Alternative] ELSE h2

\* (mutant) the duplicate is given the production target
CloneFor_TargetsProduction(h, alt, c) ==
    LET h1 == DuplicateRequest(h, Original)
        d  == DupOf(h)
        h2 == setRequestTarget(h1, d, c.Target, c.TargetScheme)
    IN  IF c.alternateHostRewrite THEN [h2 EXCEPT !.req[d].Host = alt.Alternative] ELSE h2

\* lines 400-412, one turn of the loop: the request is duplicated, the
\* duplicate gets its target and, with -b.rewrite, its Host, and a goroutine
\* is started for it.
CloneFor(h, alt, c) ==
    LET h1 == DuplicateRequest(h, Original)
        d  == DupOf(h)
        h2 == setRequestTarget(h1, d, alt.Alternative, alt.AlternativeScheme)
    IN  IF c.alternateHostRewrite THEN [h2 EXCEPT !.req[d].Host = alt.Alternative] ELSE h2

ServeSpawn(r) ==
    /\ HandlerRunnable(r)
    /\ pc[r] = "loop"
    /\ loc[r].i <= Len(cfg.Alternatives)
    /\ LET alt == cfg.Alternatives[loc[r].i]
           d   == DupOf(mem[r])
       IN  /\ mem' = [mem EXCEPT ![r] = CloneFor(@, alt, cfg)]
           /\ log' = Logged(r, 0, setRequestTargetLog(DuplicateRequest(mem[r], Original), d,
                                                      alt.Alternative, alt.AlternativeScheme))
           /\ lane' = [lane EXCEPT ![r][loc[r].i] = [pc |-> "spawned", request |-> d]]
    /\ loc' = [loc EXCEPT ![r].i = @ + 1]
    /\ UNCHANGED <<cfg, pc, w, wire, proc, pre, op>>

\* the range over h.Alternatives is exhausted
ServeLoopEnd(r) ==
    /\ HandlerRunnable(r)
    /\ pc[r] = "loop"
    /\ loc[r].i > Len(cfg.Alternatives)
    /\ pc' = [pc EXCEPT ![r] = "target"]
    /\ UNCHANGED <<cfg, mem, loc, w, lane, wire, log, proc, pre, op>>

\* lines 416-427: productionRequest = req, the deferred recover is installed,
\* setRequestTarget(productionRequest, h.Target, h.TargetScheme), and with
\* -a.rewrite productionRequest.Host = h.Target.
ProductionRequest(h, c) ==
    LET h1 == setRequestTarget(h, Original, c.Target, c.TargetScheme)
    IN  IF c.productionHostRewrite THEN [h1 EXCEPT !.req[Original].Host = c.Target] ELSE h1

ServeTarget(r) ==
    /\ HandlerRunnable(r)
    /\ pc[r] = "target"
    /\ mem' = [mem EXCEPT ![r] = ProductionRequest(@, cfg)]
    /\ log' = Logged(r, 0, setRequestTargetLog(mem[r], Original, cfg.Target, cfg.TargetScheme))
    /\ pc' = [pc EXCEPT ![r] = "dispatch"]
    /\ UNCHANGED <<cfg, loc, w, lane, wire, proc, pre, op>>

\* The panic of the request's goroutine is recovered by the function deferred
\* at lines 417-421, which logs it when -debug is set.
ServeRecovers == TRUE

\* lines 429-430: resp := handleRequest(productionRequest, timeout, h.TargetScheme)
ServeDispatch(r) ==
    /\ HandlerRunnable(r)
    /\ pc[r] = "dispatch"
    /\ LET out == RoundTrip(mem[r], Original, wire[r].primary) IN
          /\ wire' = [wire EXCEPT ![r].attempts[0] = @ + 1,
                                  ![r].got[0] = @ \o Received(mem[r], Original, out),
                                  ![r].result[0] = <<out>>]
          /\ IF out.kind = "panic"
             THEN /\ mem' = mem
                  /\ loc' = loc
                  /\ IF ServeRecovers
                     THEN /\ log' = IF cfg.debug
                                    THEN Logged(r, 0, <<[line |-> "Recovered in ServeHTTP(production request) from:"]>>)
                                    ELSE log
                          /\ proc' = proc
                     ELSE /\ log' = log
                          /\ proc' = "crashed"
                  /\ pc' = [pc EXCEPT ![r] = "done"]
             ELSE LET hr == handleRequest(mem[r], Original, out)
                  IN  /\ mem' = [mem EXCEPT ![r] = hr.heap]
                      /\ loc' = [loc EXCEPT ![r].resp = hr.response]
                      /\ log' = Logged(r, 0, hr.lines)
                      /\ proc' = proc
                      /\ pc' = [pc EXCEPT ![r] = IF hr.response # NilResponse
                                                 THEN "relay" ELSE "done"]
    /\ UNCHANGED <<cfg, w, lane, pre, op>>

\* (mutant) w.Header().Set(k, v[0]): only the first value of a key is copied
CopyHeader_FirstValueOnly(wh, rh) ==
    [k \in (DOMAIN wh) \cup (DOMAIN rh) |-> IF k \in DOMAIN rh THEN <<rh[k][1]>> ELSE wh[k]]

\* for k, v := range resp.Header { w.Header()[k] = v }
CopyHeader(wh, rh) ==
    [k \in (DOMAIN wh) \cup (DOMAIN rh) |-> IF k \in DOMAIN rh THEN rh[k] ELSE wh[k]]

\* (mutant) w.WriteHeader(resp.StatusCode) stands before the loop over
\* resp.Header
ServeRelayHeader_StatusFirst(r) ==
    /\ HandlerRunnable(r)
    /\ pc[r] = "relay"
    /\ log' = Logged(r, 0, <<[line |-> "| A |", status |-> loc[r].resp.StatusCode]>>)
    /\ LET w1 == [w[r] EXCEPT !.status = loc[r].resp.StatusCode, !.sent = w[r].header,
                             !.trace = Append(@, "status")]
       IN  w' = [w EXCEPT ![r] = [w1 EXCEPT !.header = CopyHeader(@, loc[r].resp.Header),
                                            !.trace = Append(@, "header")]]
    /\ pc' = [pc EXCEPT ![r] = "status"]
    /\ UNCHANGED <<cfg, mem, loc, lane, wire, proc, pre, op>>

\* lines 435-440: the "| A |" line is logged and the response header is copied.
ServeRelayHeader(r) ==
    /\ HandlerRunnable(r)
    /\ pc[r] = "relay"
    /\ log' = Logged(r, 0, <<[line |-> "| A |", status |-> loc[r].resp.StatusCode]>>)
    /\ w' = [w EXCEPT ![r].header = CopyHeader(@, loc[r].resp.Header),
                      ![r].trace = Append(@, "header")]
    /\ pc' = [pc EXCEPT ![r] = "status"]
    /\ UNCHANGED <<cfg, mem, loc, lane, wire, proc, pre, op>>

\* line 441: w.WriteHeader(resp.StatusCode). The header map as it stands is
\* what the client gets; a second call would be ignored by net/http.
WriteHeader(rw, code) ==
    IF rw.status = 0
    THEN [rw EXCEPT !.status = code, !.sent = rw.header, !.trace = Append(@, "status")]
    ELSE rw

ServeWriteHeader(r) ==
    /\ HandlerRunnable(r)
    /\ pc[r] = "status"
    /\ w' = [w EXCEPT ![r] = WriteHeader(@, loc[r].resp.StatusCode)]
    /\ pc' = [pc EXCEPT ![r] = "body"]
    /\ UNCHANGED <<cfg, mem, loc, lane, wire, log, proc, pre, op>>

\* line 444: io.Copy(w, resp.Body): every byte the backend sent before the end
\* of its body (EOF or a read error, which io.Copy returns and the handler
\* drops) is written to the client. Then the deferred resp.Body.Close() runs
\* and ServeHTTP returns.
CopyBody(rw, body) == [rw EXCEPT !.body = @ \o body.data, !.trace = Append(@, "body")]

\* (mutant) resp is one variable of the package: the body copied is that of
\* whichever response was stored last
ServeCopyBody_SharedResponse(r) ==
    /\ HandlerRunnable(r)
    /\ pc[r] = "body"
    /\ \E q \in Reqs :
          /\ loc[q].resp # NilResponse
          /\ w' = [w EXCEPT ![r] = CopyBody(@, loc[q].resp.Body)]
    /\ pc' = [pc EXCEPT ![r] = "done"]
    /\ UNCHANGED <<cfg, mem, loc, lane, wire, log, proc, pre, op>>

ServeCopyBody(r) ==
    /\ HandlerRunnable(r)
    /\ pc[r] = "body"
    /\ w' = [w EXCEPT ![r] = CopyBody(@, loc[r].resp.Body)]
    /\ pc' = [pc EXCEPT ![r] = "done"]
    /\ UNCHANGED <<cfg, mem, loc, lane, wire, log, proc, pre, op>>

ServeHTTP(r) ==
    \/ ServeEnrich(r)
    \/ ServeSample(r)
    \/ ServeFilter(r)
    \/ ServeSpawn(r)
    \/ ServeLoopEnd(r)
    \/ ServeTarget(r)
    \/ ServeDispatch(r)
    \/ ServeRelayHeader(r)
    \/ ServeWriteHeader(r)
    \/ ServeCopyBody(r)

----------------------------------------------------------------------------
(* handleAlternativeRequest: the goroutine of one clone *)

\* (mutant) the goroutine has no deferred recover
AlternativeRecovers_NoDefer == FALSE

\* The panic of the goroutine is recovered by the function deferred at lines
\* 325-329, which logs it when -debug is set.
AlternativeRecovers == TRUE

\* (mutant) the goroutine is tied to the handler: once ServeHTTP has returned
\* it ends without a dispatch
handleAlternativeRequest_EndsWithHandler(r, i) ==
    /\ proc = "running"
    /\ lane[r][i].pc = "spawned"
    /\ pc[r] = "done"
    /\ lane' = [lane EXCEPT ![r][i].pc = "done"]
    /\ UNCHANGED <<cfg, mem, pc, loc, w, wire, log, proc, pre, op>>

\* lines 324-335
handleAlternativeRequest(r, i) ==
    /\ proc = "running"
    /\ lane[r][i].pc = "spawned"
    /\ \E b \in AlternativeBehaviours : LET out == RoundTrip(mem[r], lane[r][i].request, b) IN
          /\ wire' = [wire EXCEPT ![r].attempts[i] = @ + 1,
                                  ![r].got[i] = @ \o Received(mem[r], lane[r][i].request, out),
                                  ![r].result[i] = <<out>>]
          /\ IF out.kind = "panic"
             THEN /\ mem' = mem
                  /\ IF AlternativeRecovers
                     THEN /\ log' = IF cfg.debug
                                    THEN Logged(r, i, <<[line |-> "Recovered in ServeHTTP(alternate request) from:"]>>)
                                    ELSE log
                          /\ proc' = proc
                     ELSE /\ log' = log
                          /\ proc' = "crashed"
             ELSE LET hr == handleRequest(mem[r], lane[r][i].request, out)
                  IN  /\ mem' = [mem EXCEPT ![r] = hr.heap]
                      /\ log' = Logged(r, i, hr.lines \o
                                    (IF hr.response # NilResponse
                                     THEN <<[line |-> "| B |", status |-> hr.response.StatusCode]>>
                                     ELSE << >>))
                      /\ proc' = proc
    /\ lane' = [lane EXCEPT ![r][i].pc = "done"]
    /\ UNCHANGED <<cfg, pc, loc, w, pre, op>>

----------------------------------------------------------------------------
(* The proxy serving one request *)

\* -p
Percents == {0, 50, 100}

InboundBodies ==
    {[body |-> BodyOf(Bytes(MaxBody), FALSE), cl |-> MaxBody],
     [body |-> BodyOf(Bytes(MaxBody - 1), TRUE), cl |-> MaxBody],
     [body |-> BodyOf(Bytes(MaxBody - 1), TRUE), cl |-> -1]}

ClientAddr == <<"1", ".", "2", ":", "8", "0">>

ClientHeader == [k \in {"X-Forwarded-For"} |-> << <<"9">> >>]

\* Requests `active` are handed to ServeHTTP, each on its own goroutine; the
\* others never arrive.
Arrive(active, heap, behaviour) ==
    /\ mem = [r \in Reqs |-> IF r \in active THEN heap[r] ELSE NoHeap]
    /\ pc = [r \in Reqs |-> IF r \in active THEN "start" ELSE "idle"]
    /\ loc = [r \in Reqs |-> IdleLoc]
    /\ w = [r \in Reqs |-> IdleWriter]
    /\ lane = [r \in Reqs |-> IdleLane]
    /\ wire = [r \in Reqs |-> IdleWire(behaviour[r])]
    /\ log = [r \in Reqs |-> IdleLog]
    /\ proc = "running"
    /\ pre = NoHeap
    /\ op = [name |-> "none", n |-> 0]

Init ==
    /\ \E k \in 0 .. MaxAlternatives, percent \in Percents, regex \in {NoRegex, GetOrPost},
          dbg \in BOOLEAN, on \in BOOLEAN :
            cfg = Config(<<"a", ":", "1">>, k, percent, regex, on, dbg, on, on)
    /\ \E method \in Methods, in \in InboundBodies, b \in PrimaryBehaviours :
            Arrive({1},
                   [r \in Reqs |-> InboundHeap(method, ClientHeader, ClientAddr, in.body, in.cl)],
                   [r \in Reqs |-> b])

Next ==
    \/ \E r \in Reqs : ServeHTTP(r)
    \/ \E r \in Reqs : \E i \in 1 .. MaxAlternatives : handleAlternativeRequest(r, i)

Spec == Init /\ [][Next]_vars

----------------------------------------------------------------------------
(* The proxy serving the same request twice: two requests that are equal in
   every field and in the bytes their body yields arrive, and the production
   backend behaves the same way towards both. *)

InitPair ==
    /\ \E k \in {0, 1}, regex \in {NoRegex, GetOrPost} :
            cfg = Config(<<"a", ":", "1">>, k, 50, regex, TRUE, FALSE, TRUE, TRUE)
    /\ \E method \in {GET, DELETE}, in \in InboundBodies,
          b \in {x \in PrimaryBehaviours : x.kind \in {"ok", "timeout", "panic"}} :
            Arrive({1, 2},
                   [r \in Reqs |-> InboundHeap(method, ClientHeader, ClientAddr, in.body, in.cl)],
                   [r \in Reqs |-> b])

SpecPair == InitPair /\ [][Next]_vars

----------------------------------------------------------------------------
(* updateForwardedHeaders on its own, as the tests of xff_header_test.go call
   it: a request with a remote address and some header state is enriched, and
   enriched again (a chain of proxies on one host), MaxOps times at most. *)

\* A request outside ServeHTTP: only mem[1] is in use.
Hold(heap) ==
    /\ cfg = Config(<<"a", ":", "1">>, 0, 0, NoRegex, TRUE, FALSE, FALSE, FALSE)
    /\ mem = [r \in Reqs |-> IF r = 1 THEN heap ELSE NoHeap]
    /\ pc = [r \in Reqs |-> "idle"]
    /\ loc = [r \in Reqs |-> IdleLoc]
    /\ w = [r \in Reqs |-> IdleWriter]
    /\ lane = [r \in Reqs |-> IdleLane]
    /\ wire = [r \in Reqs |-> IdleWire(Failure("dial"))]
    /\ log = [r \in Reqs |-> IdleLog]
    /\ proc = "running"

\* req.RemoteAddr: ip:port, an IPv6 address in brackets with a port, no port
RemoteAddrs ==
    {<<"3", ":", "8", "0">>,
     <<"[", ":", ":", "1", "]", ":", "8", "0">>,
     <<"3">>}

\* The values a header key holds when the request arrives: none (the key is
\* absent), or up to MaxValues of them, one per header line the client sent.
HeaderValues == {<<"7">>, <<"8">>}
ValueLists == UNION {[1 .. n -> HeaderValues] : n \in 0 .. MaxValues}

PriorHeader(xff, fwd) ==
    [k \in {x \in {XFF_HEADER, FORWARDED_HEADER} :
                (x = XFF_HEADER /\ xff # << >>) \/ (x = FORWARDED_HEADER /\ fwd # << >>)} |->
        IF k = XFF_HEADER THEN xff ELSE fwd]

InitXFF ==
    /\ \E addr \in RemoteAddrs, xff \in ValueLists, fwd \in ValueLists :
            Hold(InboundHeap(GET, PriorHeader(xff, fwd), addr, NoBodyAtAll, 0))
    /\ pre = NoHeap
    /\ op = [name |-> "none", n |-> 0]

\* updateForwardedHeaders(req)
UpdateForwardedHeaders ==
    /\ op.n < MaxOps
    /\ pre' = mem[1]
    /\ mem' = [mem EXCEPT ![1] = updateForwardedHeaders(@, Original)]
    /\ log' = Logged(1, 0, updateForwardedHeadersLog(mem[1], Original))
    /\ op' = [name |-> "updateForwardedHeaders", n |-> op.n + 1]
    /\ UNCHANGED <<cfg, pc, loc, w, lane, wire, proc>>

NextXFF == UpdateForwardedHeaders

SpecXFF == InitXFF /\ [][NextXFF]_vars

----------------------------------------------------------------------------
(* DuplicateRequest on its own: a request is duplicated as the loop of
   ServeHTTP does it, once for every alternative.
   SpecDup: the consumers of the duplicates read their bodies, in any order
   and in pieces, while the loop still runs and after it; the consumer of the
   request reads its body after the loop.
   SpecShare: code that holds one of the request structs changes its header
   map, its Host or the URL it points to, MaxOps times at most.
     op.got[s] : the bytes the consumer of struct s has read so far       *)

Structs == 1 .. (MaxAlternatives + 1)

\* The headers the request arrives with, and what they are changed to.
DupHeader == [k \in {"X-A"} |-> << <<"7">> >>]
MutationKeys == {"X-A"}

InitDup ==
    /\ \E in \in {NoBodyAtAll, BodyOf(Bytes(MaxBody), FALSE), BodyOf(Bytes(MaxBody - 1), TRUE)} :
            Hold(InboundHeap(POST, DupHeader, ClientAddr, in, -1))
    /\ pre = NoHeap
    /\ op = [name |-> "none", n |-> 0, s |-> 0, got |-> [s \in Structs |-> << >>]]

\* The loop has not ended: no byte of the request's body was handed to its
\* consumer, and there are alternatives left.
Duplicate ==
    /\ op.got[Original] = << >>
    /\ Len(mem[1].req) <= MaxAlternatives
    /\ pre' = mem[1]
    /\ mem' = [mem EXCEPT ![1] = DuplicateRequest(@, Original)]
    /\ op' = [op EXCEPT !.name = "DuplicateRequest", !.s = DupOf(mem[1])]
    /\ UNCHANGED <<cfg, pc, loc, w, lane, wire, log, proc>>

\* The consumer of struct s reads at most n bytes of its body.
ReadBody ==
    \E s \in 1 .. Len(mem[1].req), n \in 1 .. MaxBody :
        /\ Remaining(mem[1], mem[1].req[s].Body) # << >>
        /\ pre' = pre
        /\ mem' = [mem EXCEPT ![1] = ReadSome(@, @.req[s].Body, n)]
        /\ op' = [op EXCEPT !.name = "Read", !.s = s,
                            !.got[s] = @ \o SubSeq(Remaining(mem[1], mem[1].req[s].Body), 1,
                                                   Len(Remaining(mem[1], mem[1].req[s].Body))
                                                   - Len(Remaining(mem'[1], mem'[1].req[s].Body)))]
        /\ UNCHANGED <<cfg, pc, loc, w, lane, wire, log, proc>>

\* request.Header.Set(k, v), request.Header.Add(k, v), request.Header.Del(k)
\* on struct s: the map the struct refers to is changed.
MutateHeader ==
    \E s \in 1 .. Len(mem[1].req), k \in MutationKeys, call \in {"Set", "Add", "Del"} :
        /\ op.n < MaxOps
        /\ pre' = mem[1]
        /\ LET m == mem[1].req[s].Header
           IN  mem' = [mem EXCEPT ![1].hdr[m] =
                          IF call = "Set" THEN HeaderSet(@, k, <<"9">>)
                          ELSE IF call = "Add" THEN HeaderAdd(@, k, <<"9">>)
                          ELSE HeaderDel(@, k)]
        /\ op' = [op EXCEPT !.name = "Header", !.s = s, !.n = @ + 1]
        /\ UNCHANGED <<cfg, pc, loc, w, lane, wire, log, proc>>

\* request.Host = v on struct s
MutateHost ==
    \E s \in 1 .. Len(mem[1].req) :
        /\ op.n < MaxOps
        /\ pre' = mem[1]
        /\ mem' = [mem EXCEPT ![1].req[s].Host = <<"h">>]
        /\ op' = [op EXCEPT !.name = "Host", !.s = s, !.n = @ + 1]
        /\ UNCHANGED <<cfg, pc, loc, w, lane, wire, log, proc>>

\* request.URL.Host = v on struct s: the URL object the struct points to is
\* changed.
MutateURL ==
    \E s \in 1 .. Len(mem[1].req) :
        /\ op.n < MaxOps
        /\ mem[1].req[s].URL # NilURL
        /\ pre' = mem[1]
        /\ mem' = [mem EXCEPT ![1].url[mem[1].req[s].URL].Host = <<"h">>]
        /\ op' = [op EXCEPT !.name = "URL", !.s = s, !.n = @ + 1]
        /\ UNCHANGED <<cfg, pc, loc, w, lane, wire, log, proc>>

\* setRequestTarget(request, target, scheme) on struct s, as ServeHTTP calls
\* it for every duplicate and for the request.
RetargetStruct ==
    \E s \in 1 .. Len(mem[1].req) :
        /\ op.n < MaxOps
        /\ mem[1].req[s].URL # NilURL
        /\ pre' = mem[1]
        /\ mem' = [mem EXCEPT ![1] = setRequestTarget(@, s, <<"b", ":", "1">>, HTTP)]
        /\ op' = [op EXCEPT !.name = "setRequestTarget", !.s = s, !.n = @ + 1]
        /\ UNCHANGED <<cfg, pc, loc, w, lane, wire, log, proc>>

NextDup ==
    \/ Duplicate
    \/ ReadBody

SpecDup == InitDup /\ [][NextDup]_vars

NextShare ==
    \/ Duplicate
    \/ MutateHeader
    \/ MutateHost
    \/ MutateURL
    \/ RetargetStruct

SpecShare == InitDup /\ [][NextShare]_vars

----------------------------------------------------------------------------
(* The proxy with every combination of -a.rewrite and -b.rewrite, a -a flag
   with and without a path, and every request mirrored. *)

\* -a: host:port, or host:port with a path (the flag's own example)
TargetsWithPath == {<<"a", ":", "1">>, <<"a", ":", "1", "/", "x">>}

InitHost ==
    /\ \E a \in TargetsWithPath, k \in 0 .. MaxAlternatives, rwA \in BOOLEAN, rwB \in BOOLEAN :
            cfg = Config(a, k, 100, NoRegex, FALSE, FALSE, rwA, rwB)
    /\ \E b \in {x \in PrimaryBehaviours : x.kind \in {"ok", "read"}} :
            Arrive({1},
                   [r \in Reqs |-> InboundHeap(GET, ClientHeader, ClientAddr, NoBodyAtAll, 0)],
                   [r \in Reqs |-> b])

SpecHost == InitHost /\ [][Next]_vars

----------------------------------------------------------------------------
(* The proxy with panics at every step: next to the panic of RoundTrip that
   Next has, any statement of ServeHTTP and the logging of
   handleAlternativeRequest may panic. Two requests are served at once. *)

\* net/http runs ServeHTTP in a goroutine whose deferred function recovers the
\* panic of the handler, logs it and closes the connection.
ServerRecovers == TRUE

\* ServeHTTP is before line 417: its own recover is not deferred yet.
BeforeDefer(r) == pc[r] \in {"start", "sample", "filter", "loop"}

\* A statement of ServeHTTP panics: the function is unwound. After line 417
\* the deferred function recovers (and logs with -debug) and ServeHTTP
\* returns; before it the panic reaches the server's goroutine.
ServePanic(r) ==
    /\ HandlerRunnable(r)
    /\ pc[r] \in {"start", "sample", "filter", "loop", "target", "relay", "status", "body"}
    /\ loc' = [loc EXCEPT ![r].panicked = TRUE]
    /\ pc' = [pc EXCEPT ![r] = "done"]
    /\ IF BeforeDefer(r)
       THEN /\ log' = Logged(r, 0, <<[line |-> "http: panic serving"]>>)
            /\ proc' = IF ServerRecovers THEN proc ELSE "crashed"
       ELSE /\ log' = IF ServeRecovers /\ cfg.debug
                      THEN Logged(r, 0, <<[line |-> "Recovered in ServeHTTP(production request) from:"]>>)
                      ELSE IF ServeRecovers THEN log
                      ELSE Logged(r, 0, <<[line |-> "http: panic serving"]>>)
            /\ proc' = IF ServeRecovers \/ ServerRecovers THEN proc ELSE "crashed"
    /\ UNCHANGED <<cfg, mem, w, lane, wire, pre, op>>

\* line 332 panics (log.Printf of the "| B |" line, after handleRequest
\* returned a response): the deferred function of lines 325-329 recovers.
AlternativePanic(r, i) ==
    /\ proc = "running"
    /\ lane[r][i].pc = "spawned"
    /\ LET b   == OK(CHOOSE resp \in Responses : resp.StatusCode = 200)
           out == RoundTrip(mem[r], lane[r][i].request, b)
       IN  /\ out.kind = "ok"
           /\ wire' = [wire EXCEPT ![r].attempts[i] = @ + 1,
                                   ![r].got[i] = @ \o Received(mem[r], lane[r][i].request, out),
                                   ![r].result[i] = <<[kind |-> "panic"]>>]
           /\ mem' = [mem EXCEPT ![r] = handleRequest(mem[r], lane[r][i].request, out).heap]
    /\ IF AlternativeRecovers
       THEN /\ log' = IF cfg.debug
                      THEN Logged(r, i, <<[line |-> "Recovered in ServeHTTP(alternate request) from:"]>>)
                      ELSE log
            /\ proc' = proc
       ELSE /\ log' = log
            /\ proc' = "crashed"
    /\ lane' = [lane EXCEPT ![r][i].pc = "done"]
    /\ UNCHANGED <<cfg, pc, loc, w, pre, op>>

InitPanic ==
    /\ \E dbg \in BOOLEAN :
            cfg = Config(<<"a", ":", "1">>, 1, 100, NoRegex, TRUE, dbg, FALSE, FALSE)
    /\ \E b \in {x \in PrimaryBehaviours :
                    x.kind = "panic" \/ (x.kind = "ok" /\ x.resp.StatusCode = 200)} :
            Arrive({1, 2},
                   [r \in Reqs |-> InboundHeap(GET, ClientHeader, ClientAddr, NoBodyAtAll, 0)],
                   [r \in Reqs |-> b])

NextPanic ==
    \/ \E r \in Reqs : ServeHTTP(r)
    \/ \E r \in Reqs : \E i \in 1 .. MaxAlternatives : handleAlternativeRequest(r, i)
    \/ \E r \in Reqs : ServePanic(r)
    \/ \E r \in Reqs : \E i \in 1 .. MaxAlternatives : AlternativePanic(r, i)

SpecPanic == InitPanic /\ [][NextPanic]_vars

----------------------------------------------------------------------------
(* The sampler with its generator: h.Randomizer is a rand.Rand held by value
   in the handler; ServeHTTP has a value receiver, so every call works on a
   copy of the struct, and every copy holds the same pointer to the one
   source rand.NewSource made in main. The source has no lock. Float64 ends
   in the source's Uint64:
       rng.tap--;  if rng.tap < 0 { rng.tap += rngLen }
       rng.feed--; if rng.feed < 0 { rng.feed += rngLen }
       x := rng.vec[rng.feed] + rng.vec[rng.tap]; rng.vec[rng.feed] = x
   Requests served at once run these statements interleaved; an index outside
   the vector is a run-time panic, raised before line 417.
   cfg.Randomizer : the source (tap and feed count from 0)                  *)

\* rand.NewSource(seed): the vector is filled from the seed (the clock).
Source(vec) == [tap |-> 0, feed |-> RngLen - 1, vec |-> vec]

InitRand ==
    /\ \E vec \in [1 .. RngLen -> 0 .. (DrawSteps - 1)] :
            cfg = Config(<<"a", ":", "1">>, 0, 50, NoRegex, FALSE, FALSE, FALSE, FALSE)
                  @@ [Randomizer |-> Source(vec)]
    /\ Arrive(Reqs,
              [r \in Reqs |-> InboundHeap(GET, ClientHeader, ClientAddr, NoBodyAtAll, 0)],
              [r \in Reqs |-> Failure("dial")])

\* rng.tap--
RngTapDec(r) ==
    /\ HandlerRunnable(r)
    /\ pc[r] = "sample"
    /\ cfg.percent # 100
    /\ cfg' = [cfg EXCEPT !.Randomizer.tap = @ - 1]
    /\ pc' = [pc EXCEPT ![r] = "tap"]
    /\ UNCHANGED <<mem, loc, w, lane, wire, log, proc, pre, op>>

\* if rng.tap < 0 { rng.tap += rngLen }
RngTapWrap(r) ==
    /\ HandlerRunnable(r)
    /\ pc[r] = "tap"
    /\ cfg' = [cfg EXCEPT !.Randomizer.tap = IF @ < 0 THEN @ + RngLen ELSE @]
    /\ pc' = [pc EXCEPT ![r] = "feed"]
    /\ UNCHANGED <<mem, loc, w, lane, wire, log, proc, pre, op>>

\* rng.feed--
RngFeedDec(r) ==
    /\ HandlerRunnable(r)
    /\ pc[r] = "feed"
    /\ cfg' = [cfg EXCEPT !.Randomizer.feed = @ - 1]
    /\ pc' = [pc EXCEPT ![r] = "feedwrap"]
    /\ UNCHANGED <<mem, loc, w, lane, wire, log, proc, pre, op>>

\* if rng.feed < 0 { rng.feed += rngLen }
RngFeedWrap(r) ==
    /\ HandlerRunnable(r)
    /\ pc[r] = "feedwrap"
    /\ cfg' = [cfg EXCEPT !.Randomizer.feed = IF @ < 0 THEN @ + RngLen ELSE @]
    /\ pc' = [pc EXCEPT ![r] = "add"]
    /\ UNCHANGED <<mem, loc, w, lane, wire, log, proc, pre, op>>

\* x := rng.vec[rng.feed] + rng.vec[rng.tap]; rng.vec[rng.feed] = x, and the
\* comparison of line 398 with the number made of x. An index outside the
\* vector panics; the panic unwinds ServeHTTP into the server's goroutine.
RngAdd(r) ==
    /\ HandlerRunnable(r)
    /\ pc[r] = "add"
    /\ LET src == cfg.Randomizer
           inside == src.feed \in 0 .. (RngLen - 1) /\ src.tap \in 0 .. (RngLen - 1)
       IN  IF inside
           THEN LET x == (src.vec[src.feed + 1] + src.vec[src.tap + 1]) % DrawSteps
                IN  /\ cfg' = [cfg EXCEPT !.Randomizer.vec[src.feed + 1] = x]
                    /\ loc' = [loc EXCEPT ![r].draw = <<x>>]
                    /\ pc' = [pc EXCEPT ![r] = IF DrawBelowPercent(x, cfg.percent)
                                               THEN "filter" ELSE "target"]
                    /\ UNCHANGED <<log, proc>>
           ELSE /\ cfg' = cfg
                /\ loc' = [loc EXCEPT ![r].panicked = TRUE]
                /\ pc' = [pc EXCEPT ![r] = "done"]
                /\ log' = Logged(r, 0, <<[line |-> "http: panic serving"]>>)
                /\ proc' = IF ServerRecovers THEN proc ELSE "crashed"
    /\ UNCHANGED <<mem, w, lane, wire, pre, op>>

NextRand ==
    \/ \E r \in Reqs : ServeEnrich(r)
    \/ \E r \in Reqs : RngTapDec(r)
    \/ \E r \in Reqs : RngTapWrap(r)
    \/ \E r \in Reqs : RngFeedDec(r)
    \/ \E r \in Reqs : RngFeedWrap(r)
    \/ \E r \in Reqs : RngAdd(r)

SpecRand == InitRand /\ [][NextRand]_vars

----------------------------------------------------------------------------
(* One exchange phase by phase, against backends that may stop for ever.
   handleRequest builds its transport with getTransport: the dialer's Timeout
   bounds the connect (TLSHandshakeTimeout the handshake that belongs to it),
   ResponseHeaderTimeout bounds the wait for the response head once the
   request is written. Nothing else is set: no deadline on writing the
   request, none on reading the response body, no http.Client with a Timeout,
   no context with a deadline, and the server has no timeouts of its own.
   The production lane reads the response body in io.Copy (line 444); a
   secondary lane closes it unread (line 333).
   wire[r].stall[l] : the phase at which the backend of lane l stops, or "none"
   pc[r], lane[r][i].pc : the phase the lane is in                          *)

Phases == <<"connect", "write", "header", "body">>

\* The phases getTransport puts a timer on.
TimedPhases == {"connect", "header"}

StallPoints == {"connect", "write", "header", "body", "none"}

\* Where lane l of request r stands (lane 0 is ServeHTTP's own goroutine).
Position(r, l) == IF l = 0 THEN pc[r] ELSE lane[r][l].pc

MoveTo(r, l, to) ==
    /\ pc' = IF l = 0 THEN [pc EXCEPT ![r] = to] ELSE pc
    /\ lane' = IF l = 0 THEN lane ELSE [lane EXCEPT ![r][l].pc = to]

\* The position after phase p is through: RoundTrip returns once the head of
\* the response is read; ServeHTTP then copies the body, while
\* handleAlternativeRequest only closes it.
AfterPhase(l, p) ==
    CASE p = "connect" -> "write"
      [] p = "write"   -> "header"
      [] p = "header"  -> IF l = 0 THEN "body" ELSE "done"
      [] p = "body"    -> "done"

InitStall ==
    /\ \E k \in 0 .. MaxAlternatives :
          /\ cfg = Config(<<"a", ":", "1">>, k, 100, NoRegex, FALSE, FALSE, FALSE, FALSE)
          /\ lane = [r \in Reqs |-> [i \in 1 .. MaxAlternatives |->
                        [pc |-> IF r = 1 /\ i <= k THEN "connect" ELSE "none", request |-> 0]]]
          /\ \E stall \in [Lanes -> StallPoints] :
                /\ \A l \in Lanes : l > k => stall[l] = "none"
                /\ wire = [r \in Reqs |-> IdleWire(OK([StatusCode |-> 200])) @@ [stall |-> stall]]
    /\ mem = [r \in Reqs |-> NoHeap]
    /\ pc = [r \in Reqs |-> IF r = 1 THEN "connect" ELSE "idle"]
    /\ loc = [r \in Reqs |-> IdleLoc]
    /\ w = [r \in Reqs |-> IdleWriter]
    /\ log = [r \in Reqs |-> IdleLog]
    /\ proc = "running"
    /\ pre = NoHeap
    /\ op = [name |-> "none", n |-> 0]

\* The backend lets the phase the lane is in come to its end.
LaneAdvance(r, l) ==
    /\ proc = "running"
    /\ \E n \in 1 .. Len(Phases) :
          /\ Position(r, l) = Phases[n]
          /\ wire[r].stall[l] # Phases[n]
          /\ MoveTo(r, l, AfterPhase(l, Phases[n]))
          /\ log' = IF Phases[n] = "header"
                    THEN Logged(r, l, <<[line |-> IF l = 0 THEN "| A |" ELSE "| B |", status |-> 200]>>)
                    ELSE log
    /\ UNCHANGED <<cfg, mem, loc, w, wire, proc, pre, op>>

\* A timer of the transport runs out: RoundTrip returns the error,
\* handleRequest logs it and returns nil, and the lane ends.
LaneTimeout(r, l) ==
    /\ proc = "running"
    /\ Position(r, l) \in TimedPhases
    /\ MoveTo(r, l, "done")
    /\ log' = Logged(r, l, <<[line |-> "Request failed:", err |-> IF Position(r, l) = "connect"
                                                                  THEN "dial" ELSE "timeout"]>>)
    /\ UNCHANGED <<cfg, mem, loc, w, wire, proc, pre, op>>

NextStall ==
    \/ \E r \in Reqs : \E l \in Lanes : LaneAdvance(r, l)
    \/ \E r \in Reqs : \E l \in Lanes : LaneTimeout(r, l)

\* Every lane that can take a step takes one in the end: goroutines are
\* scheduled and timers that were set run out.
SpecStall ==
    /\ InitStall
    /\ [][NextStall]_vars
    /\ \A r \in Reqs : \A l \in Lanes : WF_vars(LaneAdvance(r, l)) /\ WF_vars(LaneTimeout(r, l))

----------------------------------------------------------------------------
(* Requests served at the same time. net/http runs ServeHTTP for every
   connection on a goroutine of its own, with a request, a header map, a body
   and a ResponseWriter of its own; the locals of ServeHTTP and the transport
   handleRequest builds belong to the call. What the calls share is the flags
   and the handler's fields (read only) and the source of h.Randomizer, which
   every draw writes: the draw is taken statement by statement here.
   The requests differ in every field, and so do the answers of the
   production backend.                                                      *)

\* The request client r sends.
ConcMethod(r) == IF r = 1 THEN GET ELSE IF r = 2 THEN POST ELSE DELETE
ConcPath(r) == <<"/", Digit(r)>>
ConcHeader(r) == [k \in {"X-Forwarded-For"} |-> << <<Digit(r)>> >>]
ConcAddr(r) == <<Digit(r + 4), ":", "8", "0">>
ConcBody(r) == IF r % 2 = 0 THEN [body |-> BodyOf(Bytes(MaxBody), FALSE), cl |-> MaxBody]
               ELSE [body |-> NoBodyAtAll, cl |-> 0]

ConcHeap(r) ==
    [InboundHeap(ConcMethod(r), ConcHeader(r), ConcAddr(r), ConcBody(r).body, ConcBody(r).cl)
        EXCEPT !.url[1].Path = ConcPath(r)]

\* What the production backend does with the request of client r.
ConcBehaviours(r) ==
    IF r % 2 = 1
    THEN {OK(CHOOSE resp \in Responses : resp.StatusCode = 200), Failure("dial")}
    ELSE {OK(CHOOSE resp \in Responses : resp.StatusCode = 500), Failure("timeout"),
          [kind |-> "panic"]}

InitConc ==
    /\ \E percent \in {50, 100}, dbg \in BOOLEAN :
            cfg = Config(<<"a", ":", "1">>, 1, percent, NoRegex, TRUE, dbg, FALSE, FALSE)
                  @@ [Randomizer |-> Source([i \in 1 .. RngLen |-> i % DrawSteps])]
    /\ \E b \in [Reqs -> UNION {ConcBehaviours(r) : r \in Reqs}] :
          /\ \A r \in Reqs : b[r] \in ConcBehaviours(r)
          /\ Arrive({1, 2}, [r \in Reqs |-> ConcHeap(r)], b)

\* A step of ServeHTTP(r) other than the draw of line 398.
ServeOutsideDraw(r) ==
    /\ pc[r] = "sample" => cfg.percent = 100
    /\ ServeHTTP(r)

NextConc ==
    \/ \E r \in Reqs : ServeOutsideDraw(r)
    \/ \E r \in Reqs : RngTapDec(r)
    \/ \E r \in Reqs : RngTapWrap(r)
    \/ \E r \in Reqs : RngFeedDec(r)
    \/ \E r \in Reqs : RngFeedWrap(r)
    \/ \E r \in Reqs : RngAdd(r)
    \/ \E r \in Reqs : \E i \in 1 .. MaxAlternatives : handleAlternativeRequest(r, i)

SpecConc == InitConc /\ [][NextConc]_vars

----------------------------------------------------------------------------
(* The backend addresses: main builds the handler with Target: *targetProduction
   and calls h.SetSchemes(), flag.Parse calls arrayAlternatives.Set for every
   -b, and ServeHTTP calls setRequestTarget with what they left. The flag
   values are a host in each of the three forms the usage line gives.
   op.form, op.host : the form and the host the -a and -b value was made of *)

\* Hosts, with and without a port, among them names that begin with "http"
\* and with "https".
BackendHosts ==
    {<<"a", ":", "1">>, <<"b">>,
     <<"h", "t", "t", "p", "x">>, <<"h", "t", "t", "p", "x", ":", "1">>,
     <<"h", "t", "t", "p", "s", "x">>, <<"h", "t", "t", "p", "s", "x", ":", "1">>}

AddressForms == {"http", "https", "bare"}

\* The flag value: http://H, https://H or H.
FlagValue(form, host) ==
    IF form = "http" THEN HTTP \o SchemeSep \o host
    ELSE IF form = "https" THEN HTTPS \o SchemeSep \o host
    ELSE host

\* The paths (with a query) of the inbound request.
InboundPaths == {<<"/", "p">>, <<"/", "p", "?", "q">>}

InitAddr ==
    /\ \E form \in AddressForms, host \in BackendHosts :
          /\ cfg = [Config(<<"a", ":", "1">>, 0, 100, NoRegex, FALSE, FALSE, FALSE, FALSE)
                        EXCEPT !.Target = FlagValue(form, host), !.TargetScheme = EmptyStr]
          /\ op = [name |-> "none", n |-> 0, form |-> form, host |-> host]
    /\ \E path \in InboundPaths :
            mem = [r \in Reqs |-> IF r = 1
                                 THEN [InboundHeap(GET, ClientHeader, ClientAddr, NoBodyAtAll, 0)
                                            EXCEPT !.url[1].Path = path]
                                 ELSE NoHeap]
    /\ pc = [r \in Reqs |-> "idle"]
    /\ loc = [r \in Reqs |-> IdleLoc]
    /\ w = [r \in Reqs |-> IdleWriter]
    /\ lane = [r \in Reqs |-> IdleLane]
    /\ wire = [r \in Reqs |-> IdleWire(Failure("dial"))]
    /\ log = [r \in Reqs |-> IdleLog]
    /\ proc = "running"
    /\ pre = NoHeap

\* h.SetSchemes()
SetSchemes ==
    /\ cfg.TargetScheme = EmptyStr
    /\ cfg' = [cfg EXCEPT !.TargetScheme = SchemeAndHost(cfg.Target).scheme,
                          !.Target = SchemeAndHost(cfg.Target).hostname]
    /\ op' = [op EXCEPT !.name = "SetSchemes", !.n = @ + 1]
    /\ UNCHANGED <<mem, pc, loc, w, lane, wire, log, proc, pre>>

\* -b with the same value: arrayAlternatives.Set
SetAlternative ==
    /\ Len(cfg.Alternatives) < 1
    /\ cfg' = [cfg EXCEPT !.Alternatives = AlternativesSet(@, FlagValue(op.form, op.host))]
    /\ op' = [op EXCEPT !.n = @ + 1]
    /\ UNCHANGED <<mem, pc, loc, w, lane, wire, log, proc, pre>>

\* setRequestTarget(productionRequest, h.Target, h.TargetScheme)
SetProductionTarget ==
    /\ op.name = "SetSchemes"
    /\ pre' = mem[1]
    /\ mem' = [mem EXCEPT ![1] = setRequestTarget(@, Original, cfg.Target, cfg.TargetScheme)]
    /\ log' = Logged(1, 0, setRequestTargetLog(mem[1], Original, cfg.Target, cfg.TargetScheme))
    /\ op' = [op EXCEPT !.name = "setRequestTarget", !.n = @ + 1]
    /\ UNCHANGED <<cfg, pc, loc, w, lane, wire, proc>>

NextAddr ==
    \/ SetSchemes
    \/ SetAlternative
    \/ SetProductionTarget

SpecAddr == InitAddr /\ [][NextAddr]_vars

----------------------------------------------------------------------------
(* The proxy with a scheduler that keeps running the goroutine of ServeHTTP
   while it has a step to take.  Nothing is assumed about the goroutines of
   handleAlternativeRequest: one that is blocked on a backend that never
   answers takes no step at all. *)

InitLive ==
    /\ \E k \in 0 .. MaxAlternatives, percent \in {50, 100} :
            cfg = Config(<<"a", ":", "1">>, k, percent, NoRegex, TRUE, TRUE, TRUE, TRUE)
    /\ \E in \in InboundBodies, b \in PrimaryBehaviours :
            Arrive({1},
                   [r \in Reqs |-> InboundHeap(POST, ClientHeader, ClientAddr, in.body, in.cl)],
                   [r \in Reqs |-> b])

\* A step of ServeHTTP(r): every one of them moves pc[r] or the loop index,
\* and no step of another goroutine touches either.
HandledStep(r) == pc'[r] # pc[r] \/ loc'[r] # loc[r]

\* Weak fairness of ServeHTTP(r), WF_vars(ServeHTTP(r)), spelled out with
\* HandlerRunnable(r) for ENABLED <<ServeHTTP(r)>>_vars: the goroutine is not
\* runnable for ever without running.
HandlerFair(r) == []<>(~HandlerRunnable(r)) \/ []<><<HandledStep(r)>>_vars

LiveSpec == InitLive /\ [][Next]_vars /\ \A r \in Reqs : HandlerFair(r)

----------------------------------------------------------------------------
(* Properties of the proxy serving a request *)

\* ServeHTTP is past the loop over h.Alternatives.
PastLoop(r) == pc[r] \in {"target", "dispatch", "relay", "status", "body", "done"}

\* ServeHTTP is past handleRequest.
PastDispatch(r) == pc[r] \in {"relay", "status", "body", "done"}

\* The goroutines started for request r.
Spawned(r) == {i \in 1 .. MaxAlternatives : lane[r][i].pc # "none"}

AllAlternatives == 1 .. Len(cfg.Alternatives)

\* What RoundTrip of the production request ended with (PastDispatch only).
PrimaryResult(r) == wire[r].result[0][1]

Method(r) == mem[r].req[Original].Method

\* The number drawn is below -p (or -p is 100 and no number was drawn).
SampledIn(r) ==
    \/ cfg.percent = 100
    \/ loc[r].draw # << >> /\ loc[r].draw[1] * 100 < cfg.percent * DrawSteps

\* C1: when the production dispatch succeeds, the client gets the status code
\* of the production response, for every header key exactly the list of its
\* values, no other key, and all the bytes of its body.
C1_RelayIsPrimaryResponse ==
    \A r \in Reqs :
        (pc[r] = "done" /\ wire[r].result[0] # << >> /\ PrimaryResult(r).kind = "ok") =>
            LET resp == PrimaryResult(r).resp
            IN  /\ w[r].status = resp.StatusCode
                /\ DOMAIN w[r].sent = DOMAIN resp.Header
                /\ \A k \in DOMAIN resp.Header : w[r].sent[k] = resp.Header[k]
                /\ w[r].header = w[r].sent
                /\ w[r].body = resp.Body.data

C1_Witness ==
    /\ pc[1] = "done"
    /\ w[1].status = 200
    /\ "Set-Cookie" \in DOMAIN w[1].sent
    /\ Len(w[1].sent["Set-Cookie"]) = 2
    /\ w[1].body = <<"o", "k">>
    /\ Spawned(1) # {}

\* C2: two requests equal in every field and in what their body yields, sent
\* to a production backend that behaves the same way towards both, leave the
\* client with the same outcome (the same header, status, body and order of
\* writes, or nothing at all), whatever number was drawn for each and whatever
\* each alternative did.
C2_SameOutcome ==
    (pc[1] = "done" /\ pc[2] = "done") => w[1] = w[2]

\* C3: a scheduler that is fair to the goroutine of ServeHTTP alone is enough
\* for every request to be answered: ServeHTTP returns even when no goroutine
\* of an alternative ever takes a step, so it never waits for one.
C3_NeverWaitsForAlternatives ==
    \A r \in Reqs : (pc[r] = "start") ~> (pc[r] = "done")

C3_Witness ==
    /\ pc[1] = "done"
    /\ w[1].status = 200
    /\ Len(cfg.Alternatives) = MaxAlternatives
    /\ \A i \in 1 .. MaxAlternatives : lane[1][i].pc = "spawned"

\* The bytes the inbound body yields (to its end or to its read error): the
\* first reader of the heap is the one the request arrived with.
InboundBytes(h) == IF h.body = << >> THEN << >> ELSE h.body[1].data

\* C8: for every number of duplicates, every body and every interleaving of
\* the reads, what the consumer of each struct (the request and every
\* duplicate) has read so far followed by what its body still holds is the
\* inbound body, byte for byte: no consumer loses a byte, gets a byte twice
\* or has its position moved by the read of another.
C8_BodiesEqualAndIndependent ==
    \A s \in 1 .. Len(mem[1].req) :
        op.got[s] \o Remaining(mem[1], mem[1].req[s].Body) = InboundBytes(mem[1])

C8_Witness ==
    /\ Len(mem[1].req) = MaxAlternatives + 1
    /\ InboundBytes(mem[1]) = Bytes(MaxBody)
    /\ op.got[2] = Bytes(MaxBody)
    /\ op.got[Len(mem[1].req)] = Bytes(1)
    /\ op.got[Original] = << >>
    /\ op.name = "Read"

\* C9: a change of the URL, the Host or the header map of one of the structs
\* DuplicateRequest has dealt with (the request or a duplicate) leaves what
\* every other struct shows unchanged.
C9_CloneIsolation ==
    (op.name \in {"Header", "Host", "URL", "setRequestTarget"} /\ Len(mem[1].req) > 1) =>
        \A t \in 1 .. Len(mem[1].req) :
            t # op.s => View(mem[1], t) = View(pre, t)

\* The value of a header key as its reader takes it (RFC 7230, 3.2.2): the
\* values of the key's lines in order, joined with ", "; "" without a line.
RECURSIVE Joined(_)
Joined(values) ==
    IF values = << >> THEN EmptyStr
    ELSE IF Len(values) = 1 THEN values[1]
    ELSE values[1] \o CommaSpace \o Joined(Tail(values))

ValueOf(hd, k) == IF k \in DOMAIN hd THEN Joined(hd[k]) ELSE EmptyStr

\* C10: after updateForwardedHeaders, X-Forwarded-For is its prior value
\* followed by ", ip" (just ip without a prior value) and Forwarded is its
\* prior value followed by ", for=ip" (just for=ip without one), for every
\* remote address and every prior state of the two headers.
C10_AppendsNeverReplaces ==
    op.name = "updateForwardedHeaders" =>
        LET prior == pre.hdr[pre.req[Original].Header]
            post  == mem[1].hdr[mem[1].req[Original].Header]
            ip    == RemoteIP(pre.req[Original].RemoteAddr)
        IN  /\ ValueOf(post, XFF_HEADER) =
                    IF ValueOf(prior, XFF_HEADER) # EmptyStr
                    THEN ValueOf(prior, XFF_HEADER) \o CommaSpace \o ip
                    ELSE ip
            /\ ValueOf(post, FORWARDED_HEADER) =
                    IF ValueOf(prior, FORWARDED_HEADER) # EmptyStr
                    THEN ValueOf(prior, FORWARDED_HEADER) \o CommaSpace \o ForEquals \o ip
                    ELSE ForEquals \o ip

C5_SamplingGate ==
    \A r \in Reqs :
        LET eligible == cfg.alternateMethodsRegex.nil \/ Method(r) \in {GET, POST}
        IN  /\ cfg.percent = 0 => Spawned(r) = {}
            /\ (PastLoop(r) /\ cfg.percent = 100 /\ eligible) => Spawned(r) = AllAlternatives
            /\ (PastLoop(r) /\ cfg.percent \notin {0, 100} /\ eligible) =>
                    /\ loc[r].draw # << >>
                    /\ Spawned(r) = IF loc[r].draw[1] * 100 < cfg.percent * DrawSteps
                                    THEN AllAlternatives ELSE {}
            /\ (cfg.percent = 100) => loc[r].draw = << >>

C5_Witness ==
    /\ pc[1] = "done"
    /\ cfg.percent = 50
    /\ loc[1].draw = <<1>>
    /\ Spawned(1) = 1 .. MaxAlternatives

\* C6: without -b.methods every method is eligible (a sampled request is
\* mirrored to every alternative); with -b.methods GET|POST a sampled request
\* is mirrored exactly when its method matches, so GET and POST are mirrored
\* and DELETE starts no goroutine, while the production backend still gets
\* the request.
C6_MethodFilter ==
    \A r \in Reqs :
        PastLoop(r) =>
            /\ (cfg.alternateMethodsRegex.nil /\ SampledIn(r)) => Spawned(r) = AllAlternatives
            /\ (~cfg.alternateMethodsRegex.nil /\ SampledIn(r)) =>
                    Spawned(r) = IF Method(r) \in {GET, POST} THEN AllAlternatives ELSE {}
            /\ (pc[r] = "done" /\ Spawned(r) = {}) => wire[r].attempts[0] = 1

C6_Witness ==
    /\ pc[1] = "done"
    /\ ~cfg.alternateMethodsRegex.nil
    /\ Method(1) = DELETE
    /\ cfg.percent = 100
    /\ Len(cfg.Alternatives) > 0
    /\ Spawned(1) = {}
    /\ wire[1].got[0] # << >>

\* C7: when the production dispatch fails (no connection, write or read
\* failure, timeout), nothing is written to the client (no header, no
\* status, no body), the failure is logged with or without -debug, and the
\* dispatch is not tried again.
C7_PrimaryFailureWritesNothing ==
    \A r \in Reqs :
        (wire[r].result[0] # << >> /\ PrimaryResult(r).kind \in ErrorKinds) =>
            /\ pc[r] = "done"
            /\ w[r] = IdleWriter
            /\ \E n \in 1 .. Len(log[r][0]) : log[r][0][n].line = "Request failed:"
            /\ wire[r].attempts[0] = 1

C7_Witness ==
    /\ pc[1] = "done"
    /\ PrimaryResult(1).kind = "timeout"
    /\ ~cfg.debug
    /\ Spawned(1) # {}

\* The host:port of the backend of lane l (0: the -a flag, i: the i-th -b flag).
BackendHostPort(l) == IF l = 0 THEN <<"a", ":", "1">> ELSE <<"b", ":", Digit(l)>>

\* C11: the Host a backend receives is its own host:port when the rewrite
\* flag of its lane is set (-a.rewrite for the production backend, -b.rewrite
\* for the alternatives) and the Host the client sent when it is not, for
\* every combination of the two flags: the flag of one lane never shows in
\* the Host of another.
C11_HostRewritePerLane ==
    \A r \in Reqs : \A l \in Lanes : \A n \in 1 .. Len(wire[r].got[l]) :
        wire[r].got[l][n].Host =
            IF (l = 0 /\ cfg.productionHostRewrite) \/ (l # 0 /\ cfg.alternateHostRewrite)
            THEN BackendHostPort(l)
            ELSE ClientHost

C11_Witness ==
    /\ pc[1] = "done"
    /\ cfg.productionHostRewrite /\ ~cfg.alternateHostRewrite
    /\ cfg.Target = <<"a", ":", "1", "/", "x">>
    /\ wire[1].got[0] # << >> /\ wire[1].got[0][1].Host = <<"a", ":", "1">>
    /\ \A i \in 1 .. MaxAlternatives :
            wire[1].got[i] # << >> /\ wire[1].got[i][1].Host = ClientHost

\* What the client of a request has when ServeHTTP relayed `out` in full.
Relayed(out) ==
    IF out.kind = "ok"
    THEN [header |-> out.resp.Header, sent |-> out.resp.Header,
          status |-> out.resp.StatusCode, body |-> out.resp.Body.data,
          trace  |-> <<"header", "status", "body">>]
    ELSE IdleWriter

\* C12: whatever statement of ServeHTTP or of handleAlternativeRequest
\* panics, the process keeps running, and a request none of whose own
\* ServeHTTP statements panicked gets the client outcome its production
\* dispatch calls for, whatever panicked in its alternatives and in the
\* request served beside it.
C12_PanicsAreContained ==
    /\ proc = "running"
    /\ \A r \in Reqs :
            (pc[r] = "done" /\ ~loc[r].panicked) =>
                /\ wire[r].result[0] # << >>
                /\ w[r] = Relayed(PrimaryResult(r))

C12_Witness ==
    /\ pc[1] = "done" /\ loc[1].panicked
    /\ wire[1].attempts[0] = 0
    /\ wire[1].result[1] = <<[kind |-> "panic"]>>
    /\ pc[2] = "done" /\ ~loc[2].panicked
    /\ w[2].status = 200
    /\ w[2].body = <<"o", "k">>

\* C13: a goroutine of an alternative whose dispatch failed (no connection,
\* a failed write or read, a timeout, a panic) has logged something only if
\* -debug is set, and the failure shows neither in what the client got nor
\* in the production dispatch.
C13_SecondaryErrorsLoggedOnlyInDebug ==
    \A r \in Reqs : \A i \in 1 .. MaxAlternatives :
        (wire[r].result[i] # << >> /\ wire[r].result[i][1].kind \in ErrorKinds \cup {"panic"}) =>
            /\ (log[r][i] # << >> => cfg.debug)
            /\ (pc[r] = "done" => w[r] = Relayed(PrimaryResult(r)))

\* ServeHTTP(r) is inside the source's Uint64: it has begun to update the
\* source and has not finished.
InDraw(r) == pc[r] \in {"tap", "feed", "feedwrap", "add"}

\* C14: no two requests are inside the generator at once: while one draw is
\* in the middle of updating the source, no other draw reads or writes it.
C14_DrawsDoNotOverlap ==
    \A r1 \in Reqs : \A r2 \in Reqs : (r1 # r2 /\ InDraw(r1)) => ~InDraw(r2)

\* The lanes of request r that were started.
Started(r) == {l \in Lanes : Position(r, l) \notin {"idle", "none"}}

\* C15: every lane ends, whatever phase its backend stops in: the handler of
\* the production lane returns and every secondary goroutine ends.
C15_EveryLaneTerminates ==
    <>(\A r \in Reqs : \A l \in Started(r) : Position(r, l) = "done")

\* The inbound body of request r ends in a read error, and the request is one
\* that is mirrored (sampled in, method eligible, at least one -b).
FailedReadWhileCloning(r) ==
    /\ mem[r].body # << >>
    /\ mem[r].body[1].err
    /\ SampledIn(r)
    /\ matchedByHttpMethod(cfg, Method(r))
    /\ Len(cfg.Alternatives) >= 1

\* C16: a read error of the inbound body while the request is duplicated does
\* not end the request: past the loop there is the request and one duplicate
\* per alternative, each with a buffer of its own that holds the bytes read
\* before the error and ends regularly, a goroutine was started for every
\* alternative, each with its own duplicate, the production dispatch is made
\* once, and a backend that got a whole request got those bytes.
C16_BodyReadFailureIsNotFatal ==
    /\ proc = "running"
    /\ \A r \in Reqs :
        (FailedReadWhileCloning(r) /\ PastLoop(r)) =>
            /\ Len(mem[r].req) = 1 + Len(cfg.Alternatives)
            /\ \A s \in 1 .. Len(mem[r].req) :
                    /\ mem[r].req[s].Body \notin {NilBody, 1}
                    /\ mem[r].body[mem[r].req[s].Body].data = InboundBytes(mem[r])
                    /\ ~mem[r].body[mem[r].req[s].Body].err
                    /\ \A t \in 1 .. Len(mem[r].req) :
                            s # t => mem[r].req[s].Body # mem[r].req[t].Body
            /\ Spawned(r) = AllAlternatives
            /\ \A i \in Spawned(r) : lane[r][i].request = i + 1
            /\ PastDispatch(r) => wire[r].attempts[0] = 1
            /\ \A l \in Lanes : \A n \in 1 .. Len(wire[r].got[l]) :
                    wire[r].got[l][n].complete => wire[r].got[l][n].Body = InboundBytes(mem[r])

C16_Witness ==
    /\ FailedReadWhileCloning(1)
    /\ pc[1] = "done"
    /\ Len(cfg.Alternatives) = MaxAlternatives
    /\ mem[1].req[Original].ContentLength = -1
    /\ InboundBytes(mem[1]) # << >>
    /\ \A l \in Lanes :
            /\ wire[1].got[l] # << >>
            /\ wire[1].got[l][1].complete
            /\ wire[1].got[l][1].Body = InboundBytes(mem[1])

\* The client's IP as the backends are to see it.
ClientIP == <<"1", ".", "2">>

\* C17: with -forward-client-ip every backend of a request, production and
\* alternatives alike, receives X-Forwarded-For as the client's value followed
\* by ", ip" and Forwarded as "for=ip" (the client sent none): the address is
\* appended once however many alternatives there are. Without the flag every
\* backend receives the header as the client sent it.
C17_EnrichedOnceBeforeCloning ==
    \A r \in Reqs : \A l \in Lanes : \A n \in 1 .. Len(wire[r].got[l]) :
        LET hd == wire[r].got[l][n].Header
        IN  IF cfg.forwardClientIP
            THEN /\ ValueOf(hd, XFF_HEADER) = ValueOf(ClientHeader, XFF_HEADER) \o CommaSpace \o ClientIP
                 /\ ValueOf(hd, FORWARDED_HEADER) = ForEquals \o ClientIP
                 /\ DOMAIN hd = {XFF_HEADER, FORWARDED_HEADER}
                 /\ \A k \in DOMAIN hd : Len(hd[k]) = 1
            ELSE hd = ClientHeader

C17_Witness ==
    /\ cfg.forwardClientIP
    /\ pc[1] = "done"
    /\ Len(cfg.Alternatives) = MaxAlternatives
    /\ \A l \in Lanes :
            /\ wire[1].got[l] # << >>
            /\ ValueOf(wire[1].got[l][1].Header, XFF_HEADER) = <<"9", ",", " ", "1", ".", "2">>

\* C18: updateForwardedHeaders applied again to the request it has enriched,
\* the remote address being the same, leaves X-Forwarded-For and Forwarded as
\* the first application left them.
C18_EnrichmentIsIdempotent ==
    (op.name = "updateForwardedHeaders" /\ op.n >= 2) =>
        LET first  == pre.hdr[pre.req[Original].Header]
            second == mem[1].hdr[mem[1].req[Original].Header]
        IN  /\ pre.req[Original].RemoteAddr = mem[1].req[Original].RemoteAddr
            /\ ValueOf(second, XFF_HEADER) = ValueOf(first, XFF_HEADER)
            /\ ValueOf(second, FORWARDED_HEADER) = ValueOf(first, FORWARDED_HEADER)

HasSuffix(s, p) == Len(s) >= Len(p) /\ SubSeq(s, Len(s) - Len(p) + 1, Len(s)) = p

\* The address without its port: what stands before the last colon; the
\* whole address when it holds no colon.
WithoutPort(addr) ==
    IF \E i \in 1 .. Len(addr) : addr[i] = ":"
    THEN CHOOSE ip \in {SubSeq(addr, 1, n) : n \in 0 .. Len(addr)} :
            \E port \in {SubSeq(addr, n, Len(addr)) : n \in 1 .. (Len(addr) + 1)} :
                /\ addr = ip \o <<":">> \o port
                /\ \A i \in 1 .. Len(port) : port[i] # ":"
    ELSE addr

\* The value is `item` alone or ends with ", item".
EndsWithItem(value, item) == value = item \/ HasSuffix(value, CommaSpace \o item)

\* C19: after updateForwardedHeaders the last element of X-Forwarded-For is
\* the remote address without its port and the last element of Forwarded is
\* "for=" followed by it; for a remote address without a colon that is the
\* whole address, both headers are written all the same and a warning is
\* logged.
C19_ClientIPExtraction ==
    (op.name = "updateForwardedHeaders" /\ op.n = 1) =>
        LET addr == pre.req[Original].RemoteAddr
            post == mem[1].hdr[mem[1].req[Original].Header]
        IN  /\ EndsWithItem(ValueOf(post, XFF_HEADER), WithoutPort(addr))
            /\ EndsWithItem(ValueOf(post, FORWARDED_HEADER), ForEquals \o WithoutPort(addr))
            /\ (\A i \in 1 .. Len(addr) : addr[i] # ":") =>
                    /\ WithoutPort(addr) = addr
                    /\ \E n \in 1 .. Len(log[1][0]) :
                            log[1][0][n].line = "RemoteAddr should be IP:Port"

C19_Witness ==
    /\ op.name = "updateForwardedHeaders"
    /\ op.n = 1
    /\ pre.req[Original].RemoteAddr = <<"3">>
    /\ ValueOf(mem[1].hdr[mem[1].req[Original].Header], XFF_HEADER) = <<"7", ",", " ", "3">>
    /\ ValueOf(mem[1].hdr[mem[1].req[Original].Header], FORWARDED_HEADER) = <<"f", "o", "r", "=", "3">>
    /\ log[1][0] # << >>

\* An address of the IPv6 form is cut at its last colon too.
C19_WitnessBracketed ==
    /\ op.name = "updateForwardedHeaders"
    /\ op.n = 1
    /\ pre.req[Original].RemoteAddr = <<"[", ":", ":", "1", "]", ":", "8", "0">>
    /\ ValueOf(mem[1].hdr[mem[1].req[Original].Header], XFF_HEADER) = <<"[", ":", ":", "1", "]">>

\* C20: a request never has more goroutines than there are alternatives, and
\* never one for an alternative that is not configured; each goroutine
\* dispatches at most once, with a duplicate of its own, to its own entry of
\* the list and never to the production address; past the loop a request that
\* is sampled in and has an eligible method has one goroutine per alternative,
\* any other request has none.
C20_FanOutCount ==
    \A r \in Reqs :
        /\ Cardinality(Spawned(r)) <= Len(cfg.Alternatives)
        /\ Spawned(r) \subseteq AllAlternatives
        /\ \A i \in Spawned(r) :
                /\ wire[r].attempts[i] <= 1
                /\ mem[r].url[mem[r].req[lane[r][i].request].URL].Host = BackendHostPort(i)
                /\ BackendHostPort(i) # BackendHostPort(0)
                /\ \A j \in Spawned(r) :
                        i # j => /\ lane[r][i].request # lane[r][j].request
                                 /\ BackendHostPort(i) # BackendHostPort(j)
                /\ \A n \in 1 .. Len(wire[r].got[i]) : wire[r].got[i][n].URL.Host = BackendHostPort(i)
        /\ \A i \in (1 .. MaxAlternatives) \ Spawned(r) : wire[r].attempts[i] = 0
        /\ PastLoop(r) =>
                Spawned(r) = IF SampledIn(r) /\ matchedByHttpMethod(cfg, Method(r))
                             THEN AllAlternatives ELSE {}

C20_Witness ==
    /\ pc[1] = "done"
    /\ cfg.percent = 50
    /\ SampledIn(1)
    /\ Len(cfg.Alternatives) = MaxAlternatives
    /\ Cardinality(Spawned(1)) = MaxAlternatives
    /\ \A i \in 1 .. MaxAlternatives :
            /\ wire[1].attempts[i] = 1
            /\ wire[1].got[i] # << >>
            /\ wire[1].got[i][1].URL.Host = <<"b", ":", Digit(i)>>

\* What the production backend answered to the request of client r, as the
\* client is to see it: nothing before the relay begins, then the header map,
\* then status and header, then the body.
OwnRelay(r) ==
    LET full == Relayed(wire[r].primary)
    IN  {IdleWriter,
         [IdleWriter EXCEPT !.header = full.header, !.trace = <<"header">>],
         [full EXCEPT !.body = << >>, !.trace = <<"header", "status">>],
         full}

\* The header the backends of client r are to get (-forward-client-ip is set).
OwnHeader(r) ==
    [k \in {XFF_HEADER, FORWARDED_HEADER} |->
        IF k = XFF_HEADER THEN << <<Digit(r), ",", " ", Digit(r + 4)>> >>
        ELSE << ForEquals \o <<Digit(r + 4)>> >>]

IsPrefix(s, t) == Len(s) <= Len(t) /\ SubSeq(t, 1, Len(s)) = s

RelayOrder == <<"header", "status", "body">>

\* C22: what ServeHTTP does to the client's ResponseWriter is, in this order,
\* the copy of the response header, one WriteHeader, the copy of the body:
\* when the status is written the header map holds every key of the response
\* with all its values and is what the client is sent, it is not changed
\* afterwards, no byte of the body is written before the status, and once
\* the body is copied there is one status and one header copy before it.
\* Nothing is written when the production dispatch did not succeed.
C22_RelayOrdering ==
    \A r \in Reqs :
        /\ IsPrefix(w[r].trace, RelayOrder)
        /\ (w[r].status # 0) =>
                /\ wire[r].result[0] # << >> /\ PrimaryResult(r).kind = "ok"
                /\ w[r].status = PrimaryResult(r).resp.StatusCode
                /\ w[r].sent = PrimaryResult(r).resp.Header
                /\ w[r].header = w[r].sent
        /\ (w[r].status = 0) => w[r].body = << >> /\ w[r].sent = << >>
        /\ (pc[r] = "status") => w[r].trace = <<"header">>
        /\ (pc[r] = "body") => w[r].trace = <<"header", "status">>
        /\ (pc[r] = "done" /\ wire[r].result[0] # << >> /\ PrimaryResult(r).kind = "ok")
                => w[r].trace = RelayOrder
        /\ (wire[r].result[0] # << >> /\ PrimaryResult(r).kind # "ok") => w[r] = IdleWriter

C22_Witness ==
    /\ pc[1] = "done"
    /\ w[1].trace = <<"header", "status", "body">>
    /\ w[1].status = 500
    /\ w[1].sent = [k \in {"Content-Type"} |-> << <<"t">> >>]
    /\ w[1].body = <<"o">>

\* The alternatives request r is to be mirrored to.
Eligible(r) ==
    IF SampledIn(r) /\ matchedByHttpMethod(cfg, Method(r)) THEN AllAlternatives ELSE {}

\* C23: in the step that begins the production dispatch every goroutine the
\* request is to have is already started, with its duplicate and its target;
\* from then on the set of goroutines does not change, whatever the dispatch
\* ends in; a goroutine that was started stays as it is until its own
\* dispatch ends it, with the result of that dispatch, also when ServeHTTP
\* has returned or panicked; and one that has ended stays ended.
C23_SpawnBeforePrimary ==
    [][\A r \in Reqs :
        /\ (wire'[r].attempts[0] > wire[r].attempts[0]) =>
                /\ Spawned(r) = Eligible(r)
                /\ \A i \in Spawned(r) :
                        mem[r].url[mem[r].req[lane[r][i].request].URL].Host = BackendHostPort(i)
        /\ (wire[r].attempts[0] >= 1) => Spawned(r)' = Spawned(r)
        /\ \A i \in 1 .. MaxAlternatives :
                /\ (lane[r][i].pc = "spawned" /\ lane'[r][i] # lane[r][i]) =>
                        /\ lane'[r][i] = [lane[r][i] EXCEPT !.pc = "done"]
                        /\ wire[r].attempts[i] = 0 /\ wire'[r].attempts[i] = 1
                        /\ wire'[r].result[i] # << >>
                        /\ wire'[r].result[i][1].kind \in
                                {b.kind : b \in AlternativeBehaviours} \cup {"write", "invalid"}
                /\ (lane[r][i].pc = "done") => lane'[r][i] = lane[r][i]
      ]_vars

\* ServeHTTP has returned after a panic of the production dispatch; one
\* goroutine has since got its answer and another is still on its way.
C23_Witness ==
    /\ pc[1] = "done"
    /\ wire[1].result[0] # << >>
    /\ PrimaryResult(1).kind = "panic"
    /\ Spawned(1) = 1 .. MaxAlternatives
    /\ lane[1][1].pc = "done"
    /\ wire[1].result[1] # << >>
    /\ wire[1].result[1][1].kind = "ok"
    /\ lane[1][MaxAlternatives].pc = "spawned"

\* The scheme a flag value of the given form stands for.
SchemeOfForm(form) == IF form = "https" THEN HTTPS ELSE HTTP

\* C24: for -a and -b given as http://H, https://H or H, the scheme kept is
\* http, https and http, the host kept is H, for every H, and the production
\* request is given the URL scheme://H followed by the path and query the
\* client sent.
C24_BackendAddressParsing ==
    /\ (op.name \in {"SetSchemes", "setRequestTarget"}) =>
            /\ cfg.TargetScheme = SchemeOfForm(op.form)
            /\ cfg.Target = op.host
    /\ \A i \in 1 .. Len(cfg.Alternatives) :
            /\ cfg.Alternatives[i].AlternativeScheme = SchemeOfForm(op.form)
            /\ cfg.Alternatives[i].Alternative = op.host
    /\ (op.name = "setRequestTarget") =>
            /\ mem[1].req[Original].URL # NilURL
            /\ mem[1].url[mem[1].req[Original].URL] =
                    [Scheme |-> SchemeOfForm(op.form), Host |-> op.host,
                     Path   |-> pre.url[pre.req[Original].URL].Path]

====
